---- MODULE Spec2Model ----
(***************************************************************************)
(* fwknopd SPA ingestion pipeline: the UDP receiver loop of                *)
(* server/udp_server.c and the per-packet authorization pipeline of        *)
(* server/incoming_spa.c.                                                  *)
(*                                                                         *)
(* Text is modelled as sequences of one-character strings (a C string up   *)
(* to its terminating NUL).  The crypto library, the replay store, the     *)
(* access-list helpers, the firewall actuator and the command runners are  *)
(* collaborators outside these two files; each is modelled by its          *)
(* interface and leaves an event in the per-packet trace when called.      *)
(***************************************************************************)
EXTENDS Integers, Sequences, FiniteSets, TLC

VARIABLES
    opts,            \* fko_srv_options_t: config[] keys, test, enable_fw, packet_ctr_limit
    acc_stanzas,     \* opts->acc_stanzas: the ordered stanza list (expired is mutable)
    replay_cache,    \* the replay store: the set of digests committed
    spa_pkt,         \* opts->spa_pkt: the shared packet slot
    now,             \* the wall clock, seconds
    pc,              \* position of the process: "top", "select" and "exit" in
                     \* run_udp_server, "check_firewall_rules" and
                     \* "cmd_cycle_close" while it is inside these two calls
                     \* of the loop; inside the call of incoming_spa
                     \* "incoming_spa" and "search", "mutex_lock" while it
                     \* waits for the hash table's mutex and "wait" while it
                     \* waits for an external program; "dead" when it was
                     \* killed
    got_signal,      \* a termination signal is pending (sig_do_stop)
    check_rules_ctr, \* opts->check_rules_ctr
    packet_ctr,      \* opts->packet_ctr
    loop_calls,      \* the collaborators the receiver loop has called, and
                     \* that returned, so far
    environment,     \* the datagrams that may arrive, the faults that may occur, and
                     \* the seconds the clock may advance
    inflight,        \* the call of incoming_spa in progress, if any: the datagram,
                     \* the faults it meets, and the locals of incoming_spa
    log              \* one record per datagram handed to incoming_spa

vars == <<opts, acc_stanzas, replay_cache, spa_pkt, now, pc, got_signal,
          check_rules_ctr, packet_ctr, loop_calls, environment,
          inflight, log>>

(***************************************************************************)
(* Bounds of the model                                                     *)
(***************************************************************************)
MaxPackets == 2        \* datagrams received in one run
MaxStanzas == 2        \* length of the access stanza list
MaxTick == 1           \* seconds the clock may advance during a run

(***************************************************************************)
(* Program constants                                                       *)
(***************************************************************************)
KEEP_SEARCHING == 1
STOP_SEARCHING == 0
MIN_SPA_DATA_SIZE == 140
MAX_SPA_PACKET_LEN == 1500
MIN_GNUPG_MSG_SIZE == 400
B64_RIJNDAEL_SALT_STR_LEN == 10
B64_GPG_PREFIX_STR_LEN == 2
B64_SDP_ID_STR_LEN == 6
FKO_SDP_ID_SIZE == 4
MIN_IPV4_STR_LEN == 7
MAX_IPV4_STR_LEN == 16
DEF_FW_ACCESS_TIMEOUT == 30
INT_MAX == 2147483647

B64_RIJNDAEL_SALT == <<"U","2","F","s","d","G","V","k","X","1">>
B64_GPG_PREFIX == <<"h","Q">>

(***************************************************************************)
(* Characters and C string helpers                                         *)
(***************************************************************************)
Upper == {"A","B","C","D","E","F","G","H","I","J","K","L","M",
          "N","O","P","Q","R","S","T","U","V","W","X","Y","Z"}
Lower == {"a","b","c","d","e","f","g","h","i","j","k","l","m",
          "n","o","p","q","r","s","t","u","v","w","x","y","z"}
Digit == {"0","1","2","3","4","5","6","7","8","9"}
DigitSeq == <<"0","1","2","3","4","5","6","7","8","9">>

isalnum(c) == c \in Upper \cup Lower \cup Digit
\* isspace in the C locale: space, \t, \n, \v (the character 0x0b, written
\* as itself in the set below), \f and \r
isspace(c) == c \in {" ", "\t", "\n", "", "\f", "\r"}

\* n copies of the character c
Rep(c, n) == [i \in 1..n |-> c]

\* the tail of s from (1-based) position i on
From(s, i) == IF i > Len(s) THEN <<>> ELSE SubSeq(s, i, Len(s))

\* the first n characters of s (all of s when it is shorter): strndup, strlcpy
Take(s, n) == IF n >= Len(s) THEN s ELSE SubSeq(s, 1, n)

\* constant_runtime_cmp(a, b, len) == 0: the first len characters agree
HasPrefix(s, p) == Len(s) >= Len(p) /\ SubSeq(s, 1, Len(p)) = p

\* strstr(s, p) != NULL
strstr(s, p) == \E i \in 1..Len(s) : i + Len(p) - 1 <= Len(s)
                                     /\ SubSeq(s, i, i + Len(p) - 1) = p

\* strchr(s, c): the 1-based position of the first c in s, 0 when there is none
strchr(s, c) == IF \E i \in 1..Len(s) : s[i] = c
                THEN CHOOSE i \in 1..Len(s) : s[i] = c /\ \A j \in 1..(i-1) : s[j] # c
                ELSE 0

\* the decimal text of a natural number: snprintf("%u"), inet_ntop octets
RECURSIVE DecStr(_)
DecStr(n) == IF n < 10 THEN <<DigitSeq[n + 1]>>
             ELSE Append(DecStr(n \div 10), DigitSeq[(n % 10) + 1])

\* strncasecmp(conf, "Y", 1) == 0 and strncasecmp(conf, "N", 1) == 0
ConfY(v) == v \in {"Y", "y"}
ConfN(v) == v \in {"N", "n"}

(***************************************************************************)
(* Base64                                                                  *)
(***************************************************************************)
B64Alphabet ==
    <<"A","B","C","D","E","F","G","H","I","J","K","L","M",
      "N","O","P","Q","R","S","T","U","V","W","X","Y","Z",
      "a","b","c","d","e","f","g","h","i","j","k","l","m",
      "n","o","p","q","r","s","t","u","v","w","x","y","z",
      "0","1","2","3","4","5","6","7","8","9","+","/">>

B64Val(c) == (CHOOSE i \in 1..64 : B64Alphabet[i] = c) - 1

\* is_base64(buf, len): every one of the first len characters is in the
\* alphabet accepted on the wire (base64 plus '=' and the URL-safe '-', '_')
is_base64(buf, len) ==
    \A i \in 1..len :
        i <= Len(buf) /\ (isalnum(buf[i]) \/ buf[i] \in {"/", "+", "=", "-", "_"})

\* fko_base64_decode(in, out): -1 on a character outside the alphabet, else the
\* bytes decoded up to the end of the text or the first '='
RECURSIVE B64Fold(_, _, _, _)
B64Fold(in, i, v, out) ==
    IF i > Len(in) \/ in[i] = "=" THEN [n |-> Len(out), bytes |-> out]
    ELSE IF ~(\E k \in 1..64 : B64Alphabet[k] = in[i]) THEN [n |-> -1, bytes |-> <<>>]
    ELSE LET v2 == ((v % 4096) * 64) + B64Val(in[i])
             k == (i - 1) % 4
         IN  B64Fold(in, i + 1, v2,
                     IF k = 0 THEN out
                     ELSE Append(out, (v2 \div (2 ^ (6 - 2 * k))) % 256))

fko_base64_decode(in) == B64Fold(in, 1, 0, <<>>)

\* memcpy(&sdp_id, decoded_sdp_id, FKO_SDP_ID_SIZE) into a zeroed buffer, read
\* as a uint32_t of a little-endian host
BytesToU32(bytes) ==
    LET b(i) == IF i <= Len(bytes) THEN bytes[i] ELSE 0
    IN  b(1) + 256 * b(2) + 65536 * b(3) + 16777216 * b(4)

(***************************************************************************)
(* incoming_spa.c: preprocess_spa_data                                     *)
(***************************************************************************)
HTTP_GET == <<{"G","g"}, {"E","e"}, {"T","t"}, {" "}, {"/"}>>
USER_AGENT == <<"U","s","e","r","-","A","g","e","n","t",":"," ","F","w","k","n","o","p">>

\* strncasecmp(ndx, "GET /", 5) == 0
IsHttpGet(s) == Len(s) >= 5 /\ \A i \in 1..5 : s[i] \in HTTP_GET[i]

\* a scan that finds the end of the request but converts no character
HttpScan_NoConvert(s, n) ==
    LET lim == IF n < Len(s) THEN n ELSE Len(s)
        stop == IF \E p \in 1..lim : isspace(s[p])
                THEN (CHOOSE p \in 1..lim : isspace(s[p])
                                           /\ \A q \in 1..(p-1) : ~isspace(s[q])) - 1
                ELSE lim
    IN  [i |-> stop,
         data |-> IF stop < lim THEN [k \in 1..stop |-> s[k]] ELSE s]

\* the for loop of lines 117-130 over the text s that strlcpy left in the
\* buffer, for n characters: the count i at which it stops and the text it
\* leaves.  The text is cut only where a space is met; when the loop ends at
\* i = n without one, the characters after the n-th stay as they were copied.
HttpScan(s, n) ==
    LET lim == IF n < Len(s) THEN n ELSE Len(s)
        stop == IF \E p \in 1..lim : isspace(s[p])
                THEN (CHOOSE p \in 1..lim : isspace(s[p])
                                           /\ \A q \in 1..(p-1) : ~isspace(s[q])) - 1
                ELSE lim
        conv(c) == IF c = "-" THEN "+" ELSE IF c = "_" THEN "/" ELSE c
    IN  [i |-> stop,
         data |-> IF stop < lim
                  THEN [k \in 1..stop |-> conv(s[k])]
                  ELSE [k \in 1..Len(s) |-> IF k <= lim THEN conv(s[k]) ELSE s[k]]]

\* an extraction that keeps the id string the slot already holds
SdpIdExtract_KeepStr(pkt) ==
    LET encoded_sdp_id == Take(pkt.packet_data, B64_SDP_ID_STR_LEN)
        dec == fko_base64_decode(encoded_sdp_id)
        sdp_id == BytesToU32(Take(dec.bytes, FKO_SDP_ID_SIZE))
    IN  IF 1 > dec.n THEN [res |-> "SPA_MSG_NOT_SPA_DATA", pkt |-> pkt]
        ELSE IF sdp_id = 0 THEN [res |-> "SPA_MSG_NOT_SPA_DATA", pkt |-> pkt]
        ELSE [res |-> "FKO_SUCCESS",
              pkt |-> [pkt EXCEPT !.sdp_id = sdp_id,
                                  !.sdp_id_str = IF pkt.sdp_id_str # <<>>
                                                 THEN pkt.sdp_id_str ELSE DecStr(sdp_id)]]

\* the SDP client id part, lines 149-184
SdpIdExtract(pkt) ==
    LET encoded_sdp_id == Take(pkt.packet_data, B64_SDP_ID_STR_LEN)
        dec == fko_base64_decode(encoded_sdp_id)
        sdp_id == BytesToU32(Take(dec.bytes, FKO_SDP_ID_SIZE))
    IN  IF 1 > dec.n THEN [res |-> "SPA_MSG_NOT_SPA_DATA", pkt |-> pkt]
        ELSE IF sdp_id = 0 THEN [res |-> "SPA_MSG_NOT_SPA_DATA", pkt |-> pkt]
        ELSE [res |-> "FKO_SUCCESS",
              pkt |-> [pkt EXCEPT !.sdp_id = sdp_id, !.sdp_id_str = DecStr(sdp_id)]]

\* the base64 test and what follows it, lines 138-186
PreprocessTail(conf, pkt, pkt_data_len) ==
    IF ~is_base64(pkt.packet_data, pkt_data_len)
    THEN [res |-> "SPA_MSG_NOT_SPA_DATA", pkt |-> pkt]
    ELSE IF ConfN(conf.DISABLE_SDP_MODE) THEN SdpIdExtract(pkt)
    ELSE [res |-> "FKO_SUCCESS", pkt |-> pkt]

\* a preprocessing without the two prefix tests
preprocess_spa_data_NoPrefixTest(conf, spa_pkt0) ==
    LET ndx == spa_pkt0.packet_data
        pkt_data_len == spa_pkt0.packet_data_len
        pkt == [spa_pkt0 EXCEPT !.packet_data_len = 0]
    IN  IF pkt_data_len < MIN_SPA_DATA_SIZE THEN [res |-> "SPA_MSG_BAD_DATA", pkt |-> pkt]
        ELSE IF pkt_data_len > MAX_SPA_PACKET_LEN THEN [res |-> "SPA_MSG_BAD_DATA", pkt |-> pkt]
        ELSE IF ConfY(conf.ENABLE_SPA_OVER_HTTP) /\ IsHttpGet(ndx) /\ strstr(ndx, USER_AGENT)
             THEN LET scan == HttpScan(Take(From(ndx, 6), pkt_data_len - 1), pkt_data_len - 5)
                      cut == [pkt EXCEPT !.packet_data = scan.data]
                  IN  IF scan.i < MIN_SPA_DATA_SIZE
                      THEN [res |-> "SPA_MSG_BAD_DATA", pkt |-> cut]
                      ELSE PreprocessTail(conf,
                               [cut EXCEPT !.packet_data_len = scan.i], scan.i)
        ELSE PreprocessTail(conf, pkt, pkt_data_len)

preprocess_spa_data(conf, spa_pkt0) ==
    LET ndx == spa_pkt0.packet_data
        pkt_data_len == spa_pkt0.packet_data_len
        pkt == [spa_pkt0 EXCEPT !.packet_data_len = 0]
    IN  IF pkt_data_len < MIN_SPA_DATA_SIZE THEN [res |-> "SPA_MSG_BAD_DATA", pkt |-> pkt]
        ELSE IF pkt_data_len > MAX_SPA_PACKET_LEN THEN [res |-> "SPA_MSG_BAD_DATA", pkt |-> pkt]
        ELSE IF HasPrefix(ndx, B64_RIJNDAEL_SALT) THEN [res |-> "SPA_MSG_BAD_DATA", pkt |-> pkt]
        ELSE IF pkt_data_len > MIN_GNUPG_MSG_SIZE /\ HasPrefix(ndx, B64_GPG_PREFIX)
             THEN [res |-> "SPA_MSG_BAD_DATA", pkt |-> pkt]
        ELSE IF ConfY(conf.ENABLE_SPA_OVER_HTTP) /\ IsHttpGet(ndx) /\ strstr(ndx, USER_AGENT)
             THEN LET scan == HttpScan(Take(From(ndx, 6), pkt_data_len - 1), pkt_data_len - 5)
                      cut == [pkt EXCEPT !.packet_data = scan.data]
                  IN  IF scan.i < MIN_SPA_DATA_SIZE
                      THEN [res |-> "SPA_MSG_BAD_DATA", pkt |-> cut]
                      ELSE PreprocessTail(conf,
                               [cut EXCEPT !.packet_data_len = scan.i], scan.i)
        ELSE PreprocessTail(conf, pkt, pkt_data_len)

\* precheck_pkt: 1 when preprocessing succeeded
precheck_pkt(conf, spa_pkt0) ==
    LET r == preprocess_spa_data(conf, spa_pkt0)
    IN  [ok |-> r.res = "FKO_SUCCESS", res |-> r.res, pkt |-> r.pkt]

(***************************************************************************)
(* Addresses                                                               *)
(***************************************************************************)
\* An in_addr is the 4 octets in network byte order.
ntohl(ip) == ip[1] * 16777216 + ip[2] * 65536 + ip[3] * 256 + ip[4]

\* inet_ntop(AF_INET, ...): the dotted-quad text
inet_ntop(ip) == DecStr(ip[1]) \o <<".">> \o DecStr(ip[2]) \o <<".">>
                 \o DecStr(ip[3]) \o <<".">> \o DecStr(ip[4])

INADDR_ANY == <<0, 0, 0, 0>>
ZERO_IP_STR == <<"0",".","0",".","0",".","0">>

\* compare_addr_list(list, ip): ip lies in one of the list's networks; an
\* entry is a network address (host order) with its prefix length
compare_addr_list(list, ip) ==
    \E e \in list :
        \/ e.bits = 0
        \/ ip \div (2 ^ (32 - e.bits)) = e.net \div (2 ^ (32 - e.bits))

\* the decimal value of a text of digits
RECURSIVE DecVal(_)
DecVal(s) == IF s = <<>> THEN 0
             ELSE 10 * DecVal(SubSeq(s, 1, Len(s) - 1))
                  + ((CHOOSE i \in 1..10 : DigitSeq[i] = s[Len(s)]) - 1)

\* the octet texts of a dotted text
RECURSIVE SplitDots(_)
SplitDots(s) == LET p == strchr(s, ".")
                IN  IF p = 0 THEN <<s>>
                    ELSE <<SubSeq(s, 1, p - 1)>> \o SplitDots(From(s, p + 1))

\* is_valid_ipv4_addr(str): digits and dots only, of a legal length, three
\* dots, every octet a number up to 255
is_valid_ipv4_addr(str) ==
    /\ \A i \in 1..Len(str) : str[i] = "." \/ str[i] \in Digit
    /\ Len(str) >= MIN_IPV4_STR_LEN
    /\ Len(str) < MAX_IPV4_STR_LEN
    /\ LET parts == SplitDots(str)
       IN  /\ Len(parts) = 4
           /\ \A i \in 1..4 : /\ Len(parts[i]) \in 1..3
                              /\ DecVal(parts[i]) <= 255

(***************************************************************************)
(* 64-bit time arithmetic.  A long is kept as two limbs, value             *)
(* hi * 2^31 + lo with 0 <= lo < 2^31, so that the conversion of a long to *)
(* a 32-bit int keeps its width.                                           *)
(***************************************************************************)
Long(h, l) == [hi |-> h, lo |-> l]

LongOf(n) == Long(0, n)

LongSub(a, b) ==
    IF a.lo >= b.lo THEN Long(a.hi - b.hi, a.lo - b.lo)
    ELSE Long(a.hi - b.hi - 1, ((a.lo - b.lo) + INT_MAX) + 1)

\* labs()
labs(a) ==
    IF a.hi >= 0 THEN a
    ELSE IF a.lo = 0 THEN Long(-a.hi, 0)
    ELSE Long(-a.hi - 1, (INT_MAX - a.lo) + 1)

\* the conversion long -> int: the low 32 bits, two's complement
LongToInt(a) ==
    IF a.hi % 2 = 0 THEN a.lo ELSE (a.lo - INT_MAX) - 1

\* a > b for longs
LongGt(a, b) == a.hi > b.hi \/ (a.hi = b.hi /\ a.lo > b.lo)

(***************************************************************************)
(* The crypto library (libfko), by its interface.                          *)
(*                                                                         *)
(* A ciphertext on the wire is                                             *)
(*     [6 base64 characters of SDP client id] key-tag message-tag filler   *)
(* where key-tag names the key it was encrypted (and MAC'ed) under and     *)
(* message-tag names the plaintext in Messages.  Decryption under a key    *)
(* succeeds exactly when the key is the one named and the message exists.  *)
(***************************************************************************)
FKO_ENCRYPTION_RIJNDAEL == 1
FKO_ENCRYPTION_GPG == 2

\* the message types that are neither service-access nor command
LegacyTypes == {"FKO_ACCESS_MSG", "FKO_NAT_ACCESS_MSG", "FKO_CLIENT_TIMEOUT_ACCESS_MSG",
                "FKO_CLIENT_TIMEOUT_NAT_ACCESS_MSG", "FKO_LOCAL_NAT_ACCESS_MSG",
                "FKO_CLIENT_TIMEOUT_LOCAL_NAT_ACCESS_MSG"}

\* fko_encryption_type(data): by the length of the encoded text
fko_encryption_type(data) ==
    IF Len(data) >= MIN_GNUPG_MSG_SIZE THEN FKO_ENCRYPTION_GPG
    ELSE FKO_ENCRYPTION_RIJNDAEL

\* the raw SPA digest of the text: a collision-free hash
RawDigest(data) == [sha256 |-> data]

(***************************************************************************)
(* Plaintexts a client may have encrypted.  Times are relative to Now0,    *)
(* the clock at start-up, and MaxAge, the configured MAX_SPA_PACKET_AGE.   *)
(***************************************************************************)
Now0 == 1000
MaxAge == 120

Str_1_2_3_4 == <<"1",".","2",".","3",".","4">>
Str_tcp22 == <<"t","c","p","/","2","2">>
Str_tcp80 == <<"t","c","p","/","8","0">>
Str_svc1 == <<"7","7">>
Str_cmd == <<"l","s">>
Str_bob == <<"b","o","b">>
Str_eve == <<"e","v","e">>
Str_root == <<"r","o","o","t">>

Msg(type, src, remain, ts, user, tmo) ==
    [message_type |-> type, spa_message |-> src \o <<",">> \o remain,
     timestamp |-> ts, username |-> user, client_timeout |-> tmo,
     gpg_sig_id |-> <<>>, gpg_sig_fpr |-> <<>>]

Messages ==
    [c \in {"a","z","o","f","t","c","s","p","n","x","u","d","i","l","g","h"} |->
        CASE c = "a" -> Msg("FKO_ACCESS_MSG", Str_1_2_3_4, Str_tcp22,
                            LongOf(Now0), Str_bob, 0)
          [] c = "z" -> Msg("FKO_ACCESS_MSG", ZERO_IP_STR, Str_tcp22,
                            LongOf(Now0), Str_bob, 0)
          [] c = "o" -> Msg("FKO_ACCESS_MSG", Str_1_2_3_4, Str_tcp22,
                            LongOf(Now0 - MaxAge - 1), Str_bob, 0)
          [] c = "f" -> Msg("FKO_ACCESS_MSG", Str_1_2_3_4, Str_tcp22,
                            Long(1, Now0 + MaxAge + 1), Str_bob, 0)
          [] c = "t" -> Msg("FKO_CLIENT_TIMEOUT_ACCESS_MSG", Str_1_2_3_4, Str_tcp22,
                            LongOf(Now0), Str_bob, 30)
          [] c = "c" -> Msg("FKO_COMMAND_MSG", Str_1_2_3_4, Str_cmd,
                            LongOf(Now0), Str_bob, 0)
          [] c = "s" -> Msg("FKO_SERVICE_ACCESS_MSG", Str_1_2_3_4, Str_svc1,
                            LongOf(Now0), Str_bob, 0)
          [] c = "p" -> Msg("FKO_ACCESS_MSG", Str_1_2_3_4, Str_tcp80,
                            LongOf(Now0), Str_bob, 0)
          [] c = "n" -> Msg("FKO_NAT_ACCESS_MSG", Str_1_2_3_4, Str_tcp22,
                            LongOf(Now0), Str_bob, 0)
          [] c = "x" -> Msg("FKO_ACCESS_MSG", <<"1",".","2",".","3">>, Str_tcp22,
                            LongOf(Now0), Str_bob, 0)
          [] c = "u" -> Msg("FKO_ACCESS_MSG", Str_1_2_3_4, Str_tcp22,
                            LongOf(Now0), Str_eve, 0)
          [] c = "d" -> Msg("FKO_CLIENT_TIMEOUT_ACCESS_MSG", Str_1_2_3_4, Str_tcp22,
                            LongOf(Now0), Str_bob, 45)
          [] c = "i" -> Msg("FKO_ACCESS_MSG", <<"1",".","2",".","3",".","9","9","9">>,
                            Str_tcp22, LongOf(Now0), Str_bob, 0)
          \* sixteen characters before the comma: as many as the array
          \* spa_message_src_ip holds
          [] c = "l" -> Msg("FKO_ACCESS_MSG",
                            <<"1","1","1",".","1","1","1",".","1","1","1",".",
                              "1","1","1","1">>,
                            Str_tcp22, LongOf(Now0), Str_bob, 0)
          [] c = "g" -> [Msg("FKO_ACCESS_MSG", Str_1_2_3_4, Str_tcp22,
                             LongOf(Now0), Str_bob, 0)
                            EXCEPT !.gpg_sig_id = <<"I","1">>, !.gpg_sig_fpr = <<"F","1">>]
          [] c = "h" -> [Msg("FKO_ACCESS_MSG", Str_1_2_3_4, Str_tcp22,
                             LongOf(Now0), Str_bob, 0)
                            EXCEPT !.gpg_sig_id = <<"I","9">>, !.gpg_sig_fpr = <<"F","1">>]]

\* the part of the text the library decrypts: what follows the SDP client id
\* when one was passed in
CipherBody(data, sdp_id) ==
    IF sdp_id # 0 THEN From(data, B64_SDP_ID_STR_LEN + 1) ELSE data

\* fko_new_with_data(ctx, data, key, ..., sdp_id) with a decryption key, and
\* fko_decrypt_spa_data: FKO_SUCCESS and the plaintext, or a failure
Decrypt(data, key, sdp_id) ==
    LET body == CipherBody(data, sdp_id)
    IN  IF Len(body) >= 2 /\ key # <<>> /\ <<body[1]>> = key /\ body[2] \in DOMAIN Messages
        THEN [res |-> "FKO_SUCCESS", msg |-> Messages[body[2]]]
        ELSE [res |-> "FKO_ERROR_DECRYPTION_FAILURE", msg |-> <<>>]

(***************************************************************************)
(* Trace events.  Every check and every collaborator call of the pipeline  *)
(* appends one event to the trace of the packet being processed.           *)
(***************************************************************************)
Ev(op, n, ok) == [op |-> op, stanza |-> n, ok |-> ok]

VerdictEv(v, why, n) == [op |-> "verdict", stanza |-> n, ok |-> v = STOP_SEARCHING,
                         verdict |-> v, why |-> why]

\* a return of process_spa_data: the verdict, and the world with the events
\* of this stanza appended
Ret(v, why, n, w, t) ==
    [verdict |-> v,
     w |-> [w EXCEPT !.trace = w.trace \o t \o <<VerdictEv(v, why, n)>>]]

\* the process is killed by a signal of its own making (SIGSEGV) in the
\* middle of stanza n: process_spa_data does not return, and nothing that
\* follows it in incoming_spa or in the receiver loop is done; the verdict is
\* neither of the two that process_spa_data returns
Died(n, w, t) ==
    [verdict |-> -1,
     w |-> [w EXCEPT !.trace = w.trace \o t \o <<[op |-> "SIGSEGV", stanza |-> n,
                                                   ok |-> FALSE]>>]]

\* the dispatch events: calls that change the firewall or run a command
ActionOps == {"process_spa_request", "run_extcmd", "run_extcmd_as", "cmd_cycle_open"}

(***************************************************************************)
(* incoming_spa.c: the checks of one stanza                                *)
(*                                                                         *)
(* o   = [config, test]: the server options read by the pipeline           *)
(* env = [fault, clock]: what the collaborators answer for this packet     *)
(* w   = [replay, acc, ctx, spadat, trace]: what one stanza's processing   *)
(*       may change                                                        *)
(***************************************************************************)

\* time(NULL) as process_spa_data reads it for stanza number n: call 1 is the
\* one of check_stanza_expiration (line 362), call 2 the one of check_pkt_age
\* (line 336).  The clock runs while a packet is processed: env.clock is its
\* value when the search starts, and from the call numbered env.jump on (0 for
\* never) it reads one second later.
time(env, n, k) ==
    IF env.jump # 0 /\ 2 * (IF n = 0 THEN 0 ELSE n - 1) + k >= env.jump
    THEN env.clock + 1 ELSE env.clock

\* check_pkt_age: int ts_diff = labs(now_ts - spadat->timestamp)
check_pkt_age(o, spadat, conf_pkt_age, clock) ==
    IF ConfY(o.config.ENABLE_SPA_PACKET_AGING)
    THEN LET ts_diff == LongToInt(labs(LongSub(LongOf(clock), spadat.timestamp)))
         IN  ~(ts_diff > conf_pkt_age)
    ELSE TRUE

\* an expiration check that lets every stanza through
check_stanza_expiration_Never(acc, clock) == [ok |-> TRUE, acc |-> acc]

\* an expiration check that compares the clock every time and does not look
\* at the expired flag
check_stanza_expiration_ClockOnly(acc, clock) ==
    IF acc.access_expire_time > 0 /\ clock > acc.access_expire_time
    THEN [ok |-> FALSE, acc |-> [acc EXCEPT !.expired = TRUE]]
    ELSE [ok |-> TRUE, acc |-> acc]

\* check_stanza_expiration: the result and the stanza with its expired flag
check_stanza_expiration(acc, clock) ==
    IF acc.access_expire_time > 0
    THEN IF acc.expired THEN [ok |-> FALSE, acc |-> acc]
         ELSE IF clock > acc.access_expire_time
              THEN [ok |-> FALSE, acc |-> [acc EXCEPT !.expired = TRUE]]
              ELSE [ok |-> TRUE, acc |-> acc]
    ELSE [ok |-> TRUE, acc |-> acc]

\* a source check that lets every packet through to the stanzas
src_check_Any(stanzas, pkt) == TRUE

\* src_check: some stanza's SOURCE matches the packet source
src_check(stanzas, pkt) ==
    \E i \in 1..Len(stanzas) :
        compare_addr_list(stanzas[i].source_list, ntohl(pkt.packet_src_ip))

\* hash_table_get(opts->acc_stanza_hash_tbl, sdp_id): the index of the stanza
\* stored under the key, 0 when there is none
hash_table_get(stanzas, key) ==
    IF \E i \in 1..Len(stanzas) : stanzas[i].sdp_id_key = key
    THEN CHOOSE i \in 1..Len(stanzas) : stanzas[i].sdp_id_key = key
    ELSE 0

\* a lookup that falls back to the first stanza when the id is unknown
sdp_id_check_FirstOnMiss(stanzas, pkt, env) ==
    LET found == hash_table_get(stanzas, pkt.sdp_id_str)
        acc == IF found # 0 THEN found ELSE 1
    IN  [ok |-> TRUE, acc |-> acc,
         t |-> <<Ev("pthread_mutex_lock", 0, TRUE), Ev("hash_table_get", 0, found # 0),
                 Ev("pthread_mutex_unlock", 0, TRUE), Ev("sdp_id_check", 0, TRUE)>>]

\* a lookup that returns with the mutex still locked
sdp_id_check_NoUnlock(stanzas, pkt, env) ==
    IF pkt.sdp_id = 0
    THEN [ok |-> FALSE, acc |-> 0, t |-> <<Ev("sdp_id_check", 0, FALSE)>>]
    ELSE IF env.fault = "mutex"
    THEN [ok |-> FALSE, acc |-> 0,
          t |-> <<Ev("pthread_mutex_lock", 0, FALSE), Ev("sdp_id_check", 0, FALSE)>>]
    ELSE LET found == hash_table_get(stanzas, pkt.sdp_id_str)
         IN  [ok |-> found # 0, acc |-> found,
              t |-> <<Ev("pthread_mutex_lock", 0, TRUE),
                      Ev("hash_table_get", 0, found # 0),
                      Ev("sdp_id_check", 0, found # 0)>>]

\* sdp_id_check: the stanza found (0 for none) and the events of the lookup
sdp_id_check(stanzas, pkt, env) ==
    IF pkt.sdp_id = 0
    THEN [ok |-> FALSE, acc |-> 0, t |-> <<Ev("sdp_id_check", 0, FALSE)>>]
    ELSE IF env.fault = "mutex"
    THEN [ok |-> FALSE, acc |-> 0,
          t |-> <<Ev("pthread_mutex_lock", 0, FALSE), Ev("sdp_id_check", 0, FALSE)>>]
    ELSE LET found == hash_table_get(stanzas, pkt.sdp_id_str)
         IN  [ok |-> found # 0, acc |-> found,
              t |-> <<Ev("pthread_mutex_lock", 0, TRUE),
                      Ev("hash_table_get", 0, found # 0),
                      Ev("pthread_mutex_unlock", 0, TRUE),
                      Ev("sdp_id_check", 0, found # 0)>>]

\* is_replay(opts, digest): SPA_MSG_SUCCESS unless the digest is stored
is_replay(replay, digest, env) ==
    IF env.fault = "is_replay" THEN "SPA_MSG_DIGEST_ERROR"
    ELSE IF digest \in replay THEN "SPA_MSG_REPLAY"
    ELSE "SPA_MSG_SUCCESS"

\* get_raw_digest: the digest of the packet text, or a library error
get_raw_digest(data, env) ==
    IF env.fault = "digest" THEN [res |-> "SPA_MSG_DIGEST_ERROR", digest |-> <<>>]
    ELSE [res |-> "FKO_SUCCESS", digest |-> RawDigest(data)]

\* a replay_check that computes the digest but never consults the store
replay_check_NoLookup(o, replay, pkt, env) ==
    IF ConfY(o.config.ENABLE_DIGEST_PERSISTENCE)
    THEN LET d == get_raw_digest(pkt.packet_data, env)
         IN  IF d.res # "FKO_SUCCESS" THEN [ok |-> FALSE, raw_digest |-> <<>>]
             ELSE [ok |-> TRUE, raw_digest |-> d.digest]
    ELSE [ok |-> TRUE, raw_digest |-> <<>>]

\* replay_check: 1 unless persistence is on and the digest fails or is known
replay_check(o, replay, pkt, env) ==
    IF ConfY(o.config.ENABLE_DIGEST_PERSISTENCE)
    THEN LET d == get_raw_digest(pkt.packet_data, env)
         IN  IF d.res # "FKO_SUCCESS" THEN [ok |-> FALSE, raw_digest |-> <<>>]
             ELSE IF is_replay(replay, d.digest, env) # "SPA_MSG_SUCCESS"
                  THEN [ok |-> FALSE, raw_digest |-> d.digest]
                  ELSE [ok |-> TRUE, raw_digest |-> d.digest]
    ELSE [ok |-> TRUE, raw_digest |-> <<>>]

\* src_dst_check
src_dst_check(acc, pkt) ==
    ~( \/ ~compare_addr_list(acc.source_list, ntohl(pkt.packet_src_ip))
       \/ (acc.destination_list # {}
           /\ ~compare_addr_list(acc.destination_list, ntohl(pkt.packet_dst_ip))) )

\* the decryption state of one stanza: res, attempted_decrypt,
\* cmd_exec_success, whether *ctx is live, and the plaintext the context holds
Dec0 == [res |-> "FKO_SUCCESS", attempted_decrypt |-> FALSE, cmd_exec_success |-> FALSE,
         ctx |-> "NULL", msg |-> <<>>, t |-> <<>>]

\* a symmetric decryption that is attempted whatever the detected type
handle_rijndael_enc_AnyType(acc, pkt, enc_type, n, d) ==
    LET r == Decrypt(pkt.packet_data, acc.key, pkt.sdp_id)
        good == r.res = "FKO_SUCCESS"
    IN  [d EXCEPT !.res = r.res, !.attempted_decrypt = TRUE,
                  !.cmd_exec_success = d.cmd_exec_success \/ good,
                  !.ctx = IF good THEN "live" ELSE d.ctx,
                  !.msg = IF good THEN r.msg ELSE d.msg,
                  !.t = d.t \o <<[op |-> "fko_new_with_data", stanza |-> n,
                                  ok |-> good, key |-> acc.key,
                                  sdp_id |-> pkt.sdp_id,
                                  data |-> pkt.packet_data]>>]

\* handle_rijndael_enc
handle_rijndael_enc(acc, pkt, enc_type, n, d) ==
    IF enc_type = FKO_ENCRYPTION_RIJNDAEL \/ acc.enable_cmd_exec
    THEN LET r == Decrypt(pkt.packet_data, acc.key, pkt.sdp_id)
             good == r.res = "FKO_SUCCESS"
         IN  [d EXCEPT !.res = r.res, !.attempted_decrypt = TRUE,
                       !.cmd_exec_success = d.cmd_exec_success \/ good,
                       !.ctx = IF good THEN "live" ELSE d.ctx,
                       !.msg = IF good THEN r.msg ELSE d.msg,
                       !.t = d.t \o <<[op |-> "fko_new_with_data", stanza |-> n,
                                       ok |-> good, key |-> acc.key,
                                       sdp_id |-> pkt.sdp_id,
                                       data |-> pkt.packet_data]>>]
    ELSE d

\* handle_gpg_enc: its return value and the decryption state
handle_gpg_enc(acc, pkt, enc_type, n, env, d) ==
    IF acc.use_gpg /\ enc_type = FKO_ENCRYPTION_GPG /\ ~d.cmd_exec_success
       /\ (acc.gpg_decrypt_pw # <<>> \/ acc.gpg_allow_no_pw)
    THEN IF env.fault = "gpg_ctx"
         THEN [ret |-> FALSE,
               d |-> [d EXCEPT !.res = "FKO_ERROR_INVALID_DATA",
                               !.t = d.t \o <<[op |-> "fko_new_with_data", stanza |-> n,
                                               ok |-> FALSE, key |-> <<>>,
                                               sdp_id |-> pkt.sdp_id,
                                               data |-> pkt.packet_data]>>]]
         ELSE LET made == [d EXCEPT !.ctx = "live",
                               !.t = d.t \o <<[op |-> "fko_new_with_data", stanza |-> n,
                                               ok |-> TRUE, key |-> <<>>,
                                               sdp_id |-> pkt.sdp_id,
                                               data |-> pkt.packet_data]>>]
              IN  IF acc.gpg_exe # <<>> /\ env.fault = "gpg_exe"
                  THEN [ret |-> FALSE, d |-> [made EXCEPT !.res = "FKO_ERROR_GPGME"]]
                  ELSE IF acc.gpg_home_dir # <<>> /\ env.fault = "gpg_home_dir"
                  THEN [ret |-> FALSE, d |-> [made EXCEPT !.res = "FKO_ERROR_GPGME"]]
                  ELSE LET r == Decrypt(pkt.packet_data, acc.gpg_decrypt_id, pkt.sdp_id)
                           sig_ok == ~acc.gpg_require_sig \/ acc.gpg_ignore_sig_error
                                     \/ (r.res = "FKO_SUCCESS" /\ r.msg.gpg_sig_id # <<>>)
                           good == r.res = "FKO_SUCCESS" /\ sig_ok
                       IN  [ret |-> TRUE,
                            d |-> [made EXCEPT
                                     !.res = IF good THEN "FKO_SUCCESS" ELSE "FKO_ERROR_GPGME",
                                     !.attempted_decrypt = TRUE,
                                     !.msg = IF good THEN r.msg ELSE made.msg,
                                     !.t = made.t \o <<[op |-> "fko_decrypt_spa_data",
                                                        stanza |-> n, ok |-> good,
                                                        key |-> acc.gpg_decrypt_id,
                                                        sdp_id |-> pkt.sdp_id,
                                                        data |-> pkt.packet_data]>>]]
    ELSE [ret |-> TRUE, d |-> d]

\* check_mode_ctx
check_mode_ctx(attempted_decrypt, res) ==
    IF ~attempted_decrypt THEN FALSE
    ELSE IF res # "FKO_SUCCESS" THEN FALSE
    ELSE TRUE

\* add_replay(opts, digest): the store's insert
add_replay(replay, digest, env) ==
    IF env.fault = "add_replay" THEN [res |-> "SPA_MSG_DIGEST_ERROR", replay |-> replay]
    ELSE [res |-> "SPA_MSG_SUCCESS", replay |-> replay \cup {digest}]

\* a commit that stores the digest in test mode as well
add_replay_cache_InTestToo(o, raw_digest, added_replay_digest, n, env, replay) ==
    IF ~added_replay_digest /\ ConfY(o.config.ENABLE_DIGEST_PERSISTENCE)
    THEN LET r == add_replay(replay, raw_digest, env)
         IN  [ok |-> r.res = "SPA_MSG_SUCCESS", replay |-> r.replay,
              t |-> <<[op |-> "add_replay", stanza |-> n,
                       ok |-> r.res = "SPA_MSG_SUCCESS", digest |-> raw_digest]>>]
    ELSE [ok |-> TRUE, replay |-> replay, t |-> <<>>]

\* add_replay_cache: its return value, the store, and the insert event if any
add_replay_cache(o, raw_digest, added_replay_digest, n, env, replay) ==
    IF ~o.test /\ ~added_replay_digest /\ ConfY(o.config.ENABLE_DIGEST_PERSISTENCE)
    THEN LET r == add_replay(replay, raw_digest, env)
         IN  [ok |-> r.res = "SPA_MSG_SUCCESS", replay |-> r.replay,
              t |-> <<[op |-> "add_replay", stanza |-> n,
                       ok |-> r.res = "SPA_MSG_SUCCESS", digest |-> raw_digest]>>]
    ELSE [ok |-> TRUE, replay |-> replay, t |-> <<>>]

\* handle_gpg_sigs: the signer of a GPG message is on the stanza's lists
handle_gpg_sigs(acc, msg, enc_type, env) ==
    IF enc_type = FKO_ENCRYPTION_GPG /\ acc.gpg_require_sig
    THEN IF env.fault = "gpg_sig" \/ msg.gpg_sig_id = <<>> THEN FALSE
         ELSE IF acc.gpg_remote_fpr_list # {} /\ msg.gpg_sig_fpr \notin acc.gpg_remote_fpr_list
              THEN FALSE
         ELSE IF acc.gpg_remote_id_list # {} /\ msg.gpg_sig_id \notin acc.gpg_remote_id_list
              THEN FALSE
         ELSE TRUE
    ELSE TRUE

\* a check that takes the embedded address whatever it is
check_src_access_Embedded(acc, spadat) ==
    [ok |-> TRUE, spadat |-> [spadat EXCEPT !.use_src_ip = spadat.spa_message_src_ip]]

\* check_src_access: its return value and spadat with use_src_ip set
check_src_access(acc, spadat) ==
    IF spadat.spa_message_src_ip = ZERO_IP_STR
    THEN IF acc.require_source_address THEN [ok |-> FALSE, spadat |-> spadat]
         ELSE [ok |-> TRUE, spadat |-> [spadat EXCEPT !.use_src_ip = spadat.pkt_source_ip]]
    ELSE [ok |-> TRUE, spadat |-> [spadat EXCEPT !.use_src_ip = spadat.spa_message_src_ip]]

\* a user name check that accepts every name
check_username_AnyName(acc, spadat) == TRUE

\* check_username
check_username(acc, spadat) ==
    IF acc.require_username # <<>>
    THEN IF spadat.username # acc.require_username THEN FALSE ELSE TRUE
    ELSE TRUE

\* check_nat_access_types; config.FIREWALL is the backend the server was built for
check_nat_access_types(o, spadat) ==
    LET nat == spadat.message_type \in {"FKO_NAT_ACCESS_MSG", "FKO_CLIENT_TIMEOUT_NAT_ACCESS_MSG"}
        loc == spadat.message_type \in {"FKO_LOCAL_NAT_ACCESS_MSG",
                                        "FKO_CLIENT_TIMEOUT_LOCAL_NAT_ACCESS_MSG"}
        not_enabled ==
            \/ nat /\ o.config.FIREWALL \in {"firewalld", "iptables"}
                   /\ ~ConfY(o.config.ENABLE_FORWARDING)
            \/ ~nat /\ loc /\ o.config.FIREWALL \in {"firewalld", "iptables"}
                    /\ ~ConfY(o.config.ENABLE_LOCAL_NAT)
        unsupported == (nat \/ loc) /\ o.config.FIREWALL \notin {"firewalld", "iptables"}
    IN  IF not_enabled THEN FALSE ELSE IF unsupported THEN FALSE ELSE TRUE

\* a timeout that prefers the stanza's setting to the client's
set_timeout_StanzaFirst(acc, spadat) ==
    IF acc.fw_access_timeout > 0
    THEN [spadat EXCEPT !.fw_access_timeout = acc.fw_access_timeout]
    ELSE IF spadat.client_timeout > 0
    THEN [spadat EXCEPT !.fw_access_timeout = spadat.client_timeout]
    ELSE [spadat EXCEPT !.fw_access_timeout = DEF_FW_ACCESS_TIMEOUT]

\* set_timeout
set_timeout(acc, spadat) ==
    IF spadat.client_timeout > 0
    THEN [spadat EXCEPT !.fw_access_timeout = spadat.client_timeout]
    ELSE IF acc.fw_access_timeout > 0
    THEN [spadat EXCEPT !.fw_access_timeout = acc.fw_access_timeout]
    ELSE [spadat EXCEPT !.fw_access_timeout = DEF_FW_ACCESS_TIMEOUT]

\* acc_check_service_access / acc_check_port_access of access.c
check_service_access(acc, spadat) == spadat.spa_message_remain \in acc.service_list

check_port_proto(acc, spadat) ==
    /\ spadat.spa_message_remain \in acc.open_ports
    /\ spadat.spa_message_remain \notin acc.restrict_ports

\* gather_service_information
gather_service_information(env) == env.fault # "service_data"

\* get_spa_data_fields: spadat filled from the context
get_spa_data_fields(msg, pkt, spadat) ==
    [spadat EXCEPT !.sdp_id = pkt.sdp_id, !.username = msg.username,
                   !.timestamp = msg.timestamp, !.message_type = msg.message_type,
                   !.spa_message = msg.spa_message,
                   !.client_timeout = msg.client_timeout]

\* strncasecmp(s, "root", 4) == 0
IsRoot(s) == /\ Len(s) >= 4
             /\ s[1] \in {"r","R"} /\ s[2] \in {"o","O"}
             /\ s[3] \in {"o","O"} /\ s[4] \in {"t","T"}

\* the command text of process_cmd_msg, lines 533-558
SUDO_EXE == <<"s","u","d","o">>

\* An unset (NULL) text of a stanza is <<>>.  Line 547 tests cmd_exec_group
\* and line 548 reads cmd_sudo_exec_group: with the first set and the second
\* unset strncasecmp is given a NULL pointer and the process dies with
\* SIGSEGV (died), the buffer holding what was written up to there.
CmdBuf(acc, spadat) ==
    IF acc.enable_cmd_sudo_exec
    THEN LET user == SUDO_EXE
                     \o (IF acc.cmd_sudo_exec_user # <<>>
                            /\ ~IsRoot(acc.cmd_sudo_exec_user)
                         THEN <<" ","-","u"," ">> \o acc.cmd_sudo_exec_user ELSE <<>>)
         IN  IF acc.cmd_exec_group # <<>> /\ acc.cmd_sudo_exec_group = <<>>
             THEN [died |-> TRUE, buf |-> user]
             ELSE [died |-> FALSE,
                   buf |-> user
                           \o (IF acc.cmd_exec_group # <<>>
                                  /\ ~IsRoot(acc.cmd_sudo_exec_group)
                               THEN <<" ","-","g"," ">> \o acc.cmd_sudo_exec_group
                               ELSE <<>>)
                           \o <<" ">> \o spadat.spa_message_remain]
    ELSE [died |-> FALSE, buf |-> spadat.spa_message_remain]

\* a command runner that does not ask whether the stanza allows commands
process_cmd_msg_NoPolicy(o, acc, spadat, n, env) ==
    IF o.test THEN [ret |-> FALSE, died |-> FALSE, res |-> "FKO_SUCCESS", t |-> <<>>]
    ELSE [ret |-> TRUE, died |-> FALSE, res |-> "SPA_MSG_SUCCESS",
          t |-> <<[op |-> "run_extcmd", stanza |-> n, ok |-> TRUE,
                   cmd |-> CmdBuf(acc, spadat).buf, res |-> "SPA_MSG_SUCCESS"]>>]

\* a command runner that reports what the run call returned, whatever became
\* of the child
process_cmd_msg_IgnoreStatus(o, acc, spadat, n, env) ==
    IF ~acc.enable_cmd_exec
    THEN [ret |-> FALSE, died |-> FALSE, res |-> "FKO_SUCCESS", t |-> <<>>]
    ELSE IF o.test THEN [ret |-> FALSE, died |-> FALSE, res |-> "FKO_SUCCESS", t |-> <<>>]
    ELSE IF CmdBuf(acc, spadat).died
    THEN [ret |-> FALSE, died |-> TRUE, res |-> "FKO_SUCCESS", t |-> <<>>]
    ELSE LET as_user == acc.cmd_exec_user # <<>> /\ ~IsRoot(acc.cmd_exec_user)
             run == IF env.fault = "cmd_run" THEN "EXTCMD_FORK_ERROR" ELSE "SPA_MSG_SUCCESS"
         IN  [ret |-> TRUE, died |-> FALSE, res |-> run,
              t |-> <<[op |-> IF as_user THEN "run_extcmd_as" ELSE "run_extcmd",
                       stanza |-> n, ok |-> TRUE, cmd |-> CmdBuf(acc, spadat).buf,
                       run |-> run, exited |-> env.fault # "cmd_killed",
                       status |-> IF env.fault = "cmd_nonzero" THEN 1 ELSE 0,
                       res |-> run]>>]

\* process_cmd_msg: its return value, *res, and the run event if a command ran.
\* env.fault gives the fate of the run: "cmd_run" (the run call fails before
\* there is a child and returns an error with pid_status left 0),
\* "cmd_nonzero" (the child exits with a status other than 0) or "cmd_killed"
\* (the child does not exit); otherwise the run call returns 0, which is
\* SPA_MSG_SUCCESS.  The event records the run call's return value, the
\* child's WIFEXITED and WEXITSTATUS, and *res as the function leaves it.
\* died: the process was killed while the command text was put together, and
\* nothing was run.
process_cmd_msg(o, acc, spadat, n, env) ==
    IF ~acc.enable_cmd_exec
    THEN [ret |-> FALSE, died |-> FALSE, res |-> "FKO_SUCCESS", t |-> <<>>]
    ELSE IF o.test THEN [ret |-> FALSE, died |-> FALSE, res |-> "FKO_SUCCESS", t |-> <<>>]
    ELSE IF CmdBuf(acc, spadat).died
    THEN [ret |-> FALSE, died |-> TRUE, res |-> "FKO_SUCCESS", t |-> <<>>]
    ELSE LET as_user == acc.cmd_exec_user # <<>> /\ ~IsRoot(acc.cmd_exec_user)
             run == IF env.fault = "cmd_run" THEN "EXTCMD_FORK_ERROR" ELSE "SPA_MSG_SUCCESS"
             WIFEXITED == env.fault # "cmd_killed"
             WEXITSTATUS == IF env.fault = "cmd_nonzero" THEN 1 ELSE 0
             res == IF WIFEXITED
                    THEN IF WEXITSTATUS # 0 THEN "SPA_MSG_COMMAND_ERROR" ELSE run
                    ELSE "SPA_MSG_COMMAND_ERROR"
         IN  [ret |-> TRUE, died |-> FALSE, res |-> res,
              t |-> <<[op |-> IF as_user THEN "run_extcmd_as" ELSE "run_extcmd",
                       stanza |-> n, ok |-> TRUE, cmd |-> CmdBuf(acc, spadat).buf,
                       run |-> run, exited |-> WIFEXITED, status |-> WEXITSTATUS,
                       res |-> res]>>]

\* cmd_cycle_open(opts, acc, spadat, stanza_num, &res) of cmd_cycle.c
cmd_cycle_open(n, spadat, env) ==
    [ok |-> env.fault # "cycle_open",
     t |-> <<[op |-> "cmd_cycle_open", stanza |-> n, ok |-> env.fault # "cycle_open",
              use_src_ip |-> spadat.use_src_ip]>>]

\* process_spa_request(opts, acc, spadat) of fw_util.c
process_spa_request(n, spadat) ==
    <<[op |-> "process_spa_request", stanza |-> n, ok |-> TRUE,
       use_src_ip |-> spadat.use_src_ip, timeout |-> spadat.fw_access_timeout,
       remain |-> spadat.spa_message_remain]>>

(***************************************************************************)
(* incoming_spa.c: process_spa_data, in the order of the source            *)
(***************************************************************************)

\* a grant that lets the search go on after the firewall request
GrantAccess_KeepSearching(o, acc, n, env, w, t) ==
    IF o.test THEN Ret(KEEP_SEARCHING, "test", n, w, t)
    ELSE IF acc.cmd_cycle_open
         THEN LET c == cmd_cycle_open(n, w.spadat, env)
              IN  Ret(IF c.ok THEN STOP_SEARCHING ELSE KEEP_SEARCHING,
                      "cmd_cycle_open", n, w, t \o c.t)
         ELSE Ret(KEEP_SEARCHING, "process_spa_request", n, w,
                  t \o process_spa_request(n, w.spadat))

\* lines 1242-1271: the firewall request of an access message
GrantAccess(o, acc, n, env, w, t) ==
    IF o.test THEN Ret(KEEP_SEARCHING, "test", n, w, t)
    ELSE IF acc.cmd_cycle_open
         THEN LET c == cmd_cycle_open(n, w.spadat, env)
              IN  Ret(IF c.ok THEN STOP_SEARCHING ELSE KEEP_SEARCHING,
                      "cmd_cycle_open", n, w, t \o c.t)
         ELSE Ret(STOP_SEARCHING, "process_spa_request", n, w,
                  t \o process_spa_request(n, w.spadat))

\* a scope policy for which a port denial ends the search as well
CheckScope_PortStops(o, acc, n, msg_type, env, w, t) ==
    IF msg_type \in {"FKO_SERVICE_ACCESS_MSG", "FKO_CLIENT_TIMEOUT_SERVICE_ACCESS_MSG"}
    THEN IF ~check_service_access(acc, w.spadat)
         THEN Ret(STOP_SEARCHING, "check_service_access", n, w,
                  t \o <<Ev("check_service_access", n, FALSE)>>)
         ELSE IF ~gather_service_information(env)
         THEN Ret(STOP_SEARCHING, "gather_service_information", n, w,
                  t \o <<Ev("check_service_access", n, TRUE),
                         Ev("gather_service_information", n, FALSE)>>)
         ELSE GrantAccess(o, acc, n, env, w,
                  t \o <<Ev("check_service_access", n, TRUE),
                         Ev("gather_service_information", n, TRUE)>>)
    ELSE IF ~check_port_proto(acc, w.spadat)
         THEN Ret(STOP_SEARCHING, "check_port_proto", n, w,
                  t \o <<Ev("check_port_proto", n, FALSE)>>)
         ELSE GrantAccess(o, acc, n, env, w, t \o <<Ev("check_port_proto", n, TRUE)>>)

\* lines 1218-1240: the scope policy of an access message
CheckScope(o, acc, n, msg_type, env, w, t) ==
    IF msg_type \in {"FKO_SERVICE_ACCESS_MSG", "FKO_CLIENT_TIMEOUT_SERVICE_ACCESS_MSG"}
    THEN IF ~check_service_access(acc, w.spadat)
         THEN Ret(STOP_SEARCHING, "check_service_access", n, w,
                  t \o <<Ev("check_service_access", n, FALSE)>>)
         ELSE IF ~gather_service_information(env)
         THEN Ret(STOP_SEARCHING, "gather_service_information", n, w,
                  t \o <<Ev("check_service_access", n, TRUE),
                         Ev("gather_service_information", n, FALSE)>>)
         ELSE GrantAccess(o, acc, n, env, w,
                  t \o <<Ev("check_service_access", n, TRUE),
                         Ev("gather_service_information", n, TRUE)>>)
    ELSE IF ~check_port_proto(acc, w.spadat)
         THEN Ret(KEEP_SEARCHING, "check_port_proto", n, w,
                  t \o <<Ev("check_port_proto", n, FALSE)>>)
         ELSE GrantAccess(o, acc, n, env, w, t \o <<Ev("check_port_proto", n, TRUE)>>)

\* a dispatch that lets the search go on after a command-cycle open
Dispatch_CycleKeepsSearching(o, acc, n, msg_type, env, w, t) ==
    IF acc.cmd_cycle_open
    THEN LET c == cmd_cycle_open(n, w.spadat, env)
         IN  Ret(KEEP_SEARCHING, "cmd_cycle_open", n, w, t \o c.t)
    ELSE IF w.spadat.message_type = "FKO_COMMAND_MSG"
    THEN LET c == process_cmd_msg(o, acc, w.spadat, n, env)
         IN  IF c.died THEN Died(n, w, t)
             ELSE Ret(IF c.ret THEN STOP_SEARCHING ELSE KEEP_SEARCHING,
                      "process_cmd_msg", n, w, t \o c.t)
    ELSE CheckScope(o, acc, n, msg_type, env, w, t)

\* lines 1192-1216: command cycle and command messages
Dispatch(o, acc, n, msg_type, env, w, t) ==
    IF acc.cmd_cycle_open
    THEN LET c == cmd_cycle_open(n, w.spadat, env)
         IN  Ret(IF c.ok THEN STOP_SEARCHING ELSE KEEP_SEARCHING,
                 "cmd_cycle_open", n, w, t \o c.t)
    ELSE IF w.spadat.message_type = "FKO_COMMAND_MSG"
    THEN LET c == process_cmd_msg(o, acc, w.spadat, n, env)
         IN  IF c.died THEN Died(n, w, t)
             ELSE Ret(IF c.ret THEN STOP_SEARCHING ELSE KEEP_SEARCHING,
                      "process_cmd_msg", n, w, t \o c.t)
    ELSE CheckScope(o, acc, n, msg_type, env, w, t)

\* lines 1130-1190: the embedded source address, the user name, NAT
CheckMessage(o, acc, n, msg_type, env, w, t) ==
    LET spa_ip_demark == strchr(w.spadat.spa_message, ",")
        ip_len == spa_ip_demark - 1
    IN  IF spa_ip_demark = 0
        THEN Ret(KEEP_SEARCHING, "spa_ip_demark", n, w, t)
        ELSE IF ip_len < MIN_IPV4_STR_LEN - 1 \/ ip_len > MAX_IPV4_STR_LEN
        THEN Ret(STOP_SEARCHING, "src_ip_len", n, w, t)
        ELSE LET src_ip == Take(w.spadat.spa_message, ip_len)
                 \* line 1153 copies ip_len characters and a NUL into
                 \* spa_message_src_ip[MAX_IPV4_STR_LEN]: with ip_len =
                 \* MAX_IPV4_STR_LEN, which the test of line 1145 lets through,
                 \* the NUL is written past the array.  The field behind it in
                 \* spa_data_t is pkt_source_ip, which then reads as the empty
                 \* text; env.fault = "overflow_spared" is the outcome in
                 \* which the byte behind the array is not that field's.
                 sd1 == IF ip_len = MAX_IPV4_STR_LEN /\ env.fault # "overflow_spared"
                        THEN [w.spadat EXCEPT !.spa_message_src_ip = src_ip,
                                              !.pkt_source_ip = <<>>]
                        ELSE [w.spadat EXCEPT !.spa_message_src_ip = src_ip]
             IN  IF ~is_valid_ipv4_addr(src_ip)
                 THEN Ret(STOP_SEARCHING, "is_valid_ipv4_addr", n,
                          [w EXCEPT !.spadat = sd1], t)
                 ELSE LET sd2 == [sd1 EXCEPT !.spa_message_remain =
                                       From(w.spadat.spa_message, spa_ip_demark + 1)]
                          sa == check_src_access(acc, sd2)
                          w2 == [w EXCEPT !.spadat = sa.spadat]
                          t2 == t \o <<[op |-> "check_src_access", stanza |-> n,
                                         ok |-> sa.ok, spa_message_src_ip |-> src_ip,
                                         require_source_address |->
                                             acc.require_source_address]>>
                      IN  IF ~sa.ok
                          THEN Ret(KEEP_SEARCHING, "check_src_access", n, w2, t2)
                          ELSE IF ConfY(o.config.DISABLE_SDP_MODE)
                                  /\ ~check_username(acc, sa.spadat)
                          THEN Ret(KEEP_SEARCHING, "check_username", n, w2,
                                   t2 \o <<Ev("check_username", n, FALSE)>>)
                          ELSE IF ~check_nat_access_types(o, sa.spadat)
                          THEN Ret(KEEP_SEARCHING, "check_nat_access_types", n, w2, t2)
                          ELSE Dispatch(o, acc, n, msg_type, env, w2, t2)

\* a type check that denies the legacy types whatever the configuration
LegacyDenied_Always(o, msg_type) ==
    /\ msg_type # "FKO_SERVICE_ACCESS_MSG"
    /\ msg_type # "FKO_CLIENT_TIMEOUT_SERVICE_ACCESS_MSG"
    /\ msg_type # "FKO_COMMAND_MSG"

\* lines 1083-1086: the message type is a legacy one and the server denies those
LegacyDenied(o, msg_type) ==
    /\ msg_type # "FKO_SERVICE_ACCESS_MSG"
    /\ msg_type # "FKO_CLIENT_TIMEOUT_SERVICE_ACCESS_MSG"
    /\ msg_type # "FKO_COMMAND_MSG"
    /\ ConfN(o.config.ALLOW_LEGACY_ACCESS_REQUESTS)

\* lines 1065-1128: message type, signer, fields, timeout, age
Validate(o, acc, pkt, n, enc_type, conf_pkt_age, env, w, t, msg) ==
    IF env.fault = "msg_type"
    THEN Ret(STOP_SEARCHING, "fko_get_spa_message_type", n, w, t)
    ELSE LET msg_type == msg.message_type
         IN  IF LegacyDenied(o, msg_type)
             THEN Ret(STOP_SEARCHING, "legacy", n, w,
                      t \o <<[op |-> "msg_type", stanza |-> n, ok |-> FALSE,
                              message_type |-> msg_type]>>)
             ELSE LET t1 == t \o <<[op |-> "msg_type", stanza |-> n, ok |-> TRUE,
                                    message_type |-> msg_type]>>
                  IN  IF ~handle_gpg_sigs(acc, msg, enc_type, env)
                      THEN Ret(KEEP_SEARCHING, "handle_gpg_sigs", n, w, t1)
                      ELSE IF env.fault = "fields"
                      THEN Ret(KEEP_SEARCHING, "get_spa_data_fields", n, w, t1)
                      ELSE LET sd == set_timeout(acc, get_spa_data_fields(msg, pkt, w.spadat))
                               w1 == [w EXCEPT !.spadat = sd]
                               young == check_pkt_age(o, sd, conf_pkt_age, time(env, n, 2))
                               t2 == t1 \o <<[op |-> "check_pkt_age", stanza |-> n,
                                              ok |-> young, timestamp |-> sd.timestamp]>>
                           IN  IF ~young
                               THEN Ret(KEEP_SEARCHING, "check_pkt_age", n, w1, t2)
                               ELSE CheckMessage(o, acc, n, msg_type, env, w1, t2)

\* a stage that commits the digest before it looks at the decryption result
DecryptAndCommit_CommitFirst(o, acc, pkt, n, raw_digest, conf_pkt_age, env, w, t) ==
    LET enc_type == fko_encryption_type(pkt.packet_data)
        d1 == IF acc.use_rijndael
              THEN handle_rijndael_enc(acc, pkt, enc_type, n, [Dec0 EXCEPT !.ctx = w.ctx])
              ELSE [Dec0 EXCEPT !.ctx = w.ctx]
        g == handle_gpg_enc(acc, pkt, enc_type, n, env, d1)
        d2 == g.d
        a == add_replay_cache(o, raw_digest, FALSE, n, env, w.replay)
        w1 == [w EXCEPT !.ctx = d2.ctx, !.replay = a.replay]
        t1 == t \o d2.t \o a.t
    IN  IF ~g.ret THEN Ret(KEEP_SEARCHING, "handle_gpg_enc", n, w1, t1)
        ELSE IF ~check_mode_ctx(d2.attempted_decrypt, d2.res)
        THEN Ret(KEEP_SEARCHING, "check_mode_ctx", n, w1, t1)
        ELSE IF ~a.ok THEN Ret(KEEP_SEARCHING, "add_replay_cache", n, w1, t1)
        ELSE Validate(o, acc, pkt, n, enc_type, conf_pkt_age, env, w1, t1, d2.msg)

\* lines 1042-1063: g is what handle_gpg_enc returned; the mode check and the
\* replay commit
Commit(o, acc, pkt, n, raw_digest, conf_pkt_age, env, w, t, enc_type, g) ==
    LET w1 == [w EXCEPT !.ctx = g.d.ctx]
        t1 == t \o g.d.t
    IN  IF ~g.ret THEN Ret(KEEP_SEARCHING, "handle_gpg_enc", n, w1, t1)
        ELSE IF ~check_mode_ctx(g.d.attempted_decrypt, g.d.res)
        THEN Ret(KEEP_SEARCHING, "check_mode_ctx", n, w1, t1)
        ELSE LET a == add_replay_cache(o, raw_digest, FALSE, n, env, w.replay)
                 w2 == [w1 EXCEPT !.replay = a.replay]
             IN  IF ~a.ok THEN Ret(KEEP_SEARCHING, "add_replay_cache", n, w2, t1 \o a.t)
                 ELSE Validate(o, acc, pkt, n, enc_type, conf_pkt_age, env, w2,
                               t1 \o a.t, g.d.msg)

\* lines 1035-1063: decryption and the replay commit
DecryptAndCommit(o, acc, pkt, n, raw_digest, conf_pkt_age, env, w, t) ==
    Commit(o, acc, pkt, n, raw_digest, conf_pkt_age, env, w, t,
           fko_encryption_type(pkt.packet_data),
           handle_gpg_enc(acc, pkt, fko_encryption_type(pkt.packet_data), n, env,
               IF acc.use_rijndael
               THEN handle_rijndael_enc(acc, pkt, fko_encryption_type(pkt.packet_data), n,
                                        [Dec0 EXCEPT !.ctx = w.ctx])
               ELSE [Dec0 EXCEPT !.ctx = w.ctx]))

\* process_spa_data: the verdict of one stanza and the world it leaves
process_spa_data(o, pkt, n, raw_digest, conf_pkt_age, env, w) ==
    IF ~src_dst_check(w.acc, pkt)
    THEN Ret(KEEP_SEARCHING, "src_dst_check", n, w, <<Ev("src_dst_check", n, FALSE)>>)
    ELSE LET x == check_stanza_expiration(w.acc, time(env, n, 1))
             w1 == [w EXCEPT !.acc = x.acc]
             t1 == <<Ev("src_dst_check", n, TRUE), Ev("check_stanza_expiration", n, x.ok)>>
         IN  IF ~x.ok THEN Ret(KEEP_SEARCHING, "check_stanza_expiration", n, w1, t1)
             ELSE DecryptAndCommit(o, x.acc, pkt, n, raw_digest, conf_pkt_age, env, w1, t1)

(***************************************************************************)
(* incoming_spa.c: incoming_spa                                            *)
(***************************************************************************)
RCHK_MAX_SPA_PACKET_AGE == 100000

\* spadat as incoming_spa starts with it: the two address texts
Spadat0(pkt) ==
    [pkt_source_ip |-> inet_ntop(pkt.packet_src_ip),
     pkt_destination_ip |-> inet_ntop(pkt.packet_dst_ip),
     sdp_id |-> 0, username |-> <<>>, timestamp |-> LongOf(0), message_type |-> "",
     spa_message |-> <<>>, client_timeout |-> 0, fw_access_timeout |-> 0,
     spa_message_src_ip |-> <<>>, spa_message_remain |-> <<>>, use_src_ip |-> <<>>]

\* a destroy that leaves the context in place when zeroing its data fails
DestroyCtx_KeepOnZeroOutError(w, n, env) ==
    IF w.ctx # "NULL" /\ w.trace[Len(w.trace)].op # "SIGSEGV"
    THEN [w EXCEPT !.ctx = IF env.fault = "zero_out" THEN w.ctx ELSE "NULL",
                   !.trace = w.trace \o <<Ev("fko_destroy", n, env.fault # "zero_out")>>]
    ELSE w

\* the fko_destroy of a live context: lines 1357-1365 and 1384-1392; the
\* event is not ok when fko_destroy returns FKO_ERROR_ZERO_OUT_DATA, which is
\* logged and otherwise ignored.  A process that has died destroys nothing.
DestroyCtx(w, n, env) ==
    IF w.ctx # "NULL" /\ w.trace[Len(w.trace)].op # "SIGSEGV"
    THEN [w EXCEPT !.ctx = "NULL",
                   !.trace = w.trace \o <<Ev("fko_destroy", n, env.fault # "zero_out")>>]
    ELSE w

\* a loop that gives up after the first stanza it tries
StanzaLoop_StopAtFirst(o, pkt, n, raw_digest, conf_pkt_age, env, w) ==
    IF n > Len(w.stanzas) THEN w
    ELSE LET r == process_spa_data(o, pkt, n, raw_digest, conf_pkt_age, env,
                                   [w EXCEPT !.acc = w.stanzas[n]])
         IN  [r.w EXCEPT !.stanzas = [w.stanzas EXCEPT ![n] = r.w.acc]]

\* acc points into the list: what process_spa_data did to the stanza (its
\* expired flag) is kept in entry k of the list
KeepStanza(stanzas, k, r) == [r.w EXCEPT !.stanzas = [stanzas EXCEPT ![k] = r.w.acc]]

\* the while loop of lines 1350-1373 from stanza number n on; w.acc is unused
\* between stanzas, the list is kept in w.stanzas
RECURSIVE StanzaLoop(_, _, _, _, _, _, _)

\* a loop that goes on to the next stanza whatever the verdict
LoopStep_IgnoreVerdict(o, pkt, n, raw_digest, conf_pkt_age, env, stanzas, r) ==
    StanzaLoop(o, pkt, n + 1, raw_digest, conf_pkt_age, env,
               DestroyCtx(KeepStanza(stanzas, n, r), n, env))

\* lines 1354-1372: r is what process_spa_data returned for stanza n
LoopStep(o, pkt, n, raw_digest, conf_pkt_age, env, stanzas, r) ==
    IF r.verdict = KEEP_SEARCHING
    THEN StanzaLoop(o, pkt, n + 1, raw_digest, conf_pkt_age, env,
                    DestroyCtx(KeepStanza(stanzas, n, r), n, env))
    ELSE KeepStanza(stanzas, n, r)

StanzaLoop(o, pkt, n, raw_digest, conf_pkt_age, env, w) ==
    IF n > Len(w.stanzas) THEN w
    ELSE LoopStep(o, pkt, n, raw_digest, conf_pkt_age, env, w.stanzas,
                  process_spa_data(o, pkt, n, raw_digest, conf_pkt_age, env,
                                   [w EXCEPT !.acc = w.stanzas[n]]))

\* a search that walks the whole list in identity mode as well
Search_WalkInIdentityMode(o, pkt, found, raw_digest, env, w) ==
    LET aging == ConfY(o.config.ENABLE_SPA_PACKET_AGING)
        is_err == aging /\ o.config.MAX_SPA_PACKET_AGE \notin 0..RCHK_MAX_SPA_PACKET_AGE
        conf_pkt_age == IF aging THEN o.config.MAX_SPA_PACKET_AGE ELSE 0
    IN  IF is_err THEN [w EXCEPT !.trace = w.trace \o <<Ev("conf_pkt_age", 0, FALSE)>>]
        ELSE StanzaLoop(o, pkt, 1, raw_digest, conf_pkt_age, env, w)

\* lines 1329-1378: the packet age setting and the search for a stanza
Search(o, pkt, found, raw_digest, env, w) ==
    LET aging == ConfY(o.config.ENABLE_SPA_PACKET_AGING)
        is_err == aging /\ o.config.MAX_SPA_PACKET_AGE \notin 0..RCHK_MAX_SPA_PACKET_AGE
        conf_pkt_age == IF aging THEN o.config.MAX_SPA_PACKET_AGE ELSE 0
    IN  IF is_err THEN [w EXCEPT !.trace = w.trace \o <<Ev("conf_pkt_age", 0, FALSE)>>]
        ELSE IF ConfY(o.config.DISABLE_SDP_MODE)
        THEN StanzaLoop(o, pkt, 1, raw_digest, conf_pkt_age, env, w)
        ELSE KeepStanza(w.stanzas, found,
                        process_spa_data(o, pkt, 0, raw_digest, conf_pkt_age, env,
                                         [w EXCEPT !.acc = w.stanzas[found]]))

\* lines 1318-1327: the policy lookup of the mode: src_check over the list in
\* classic mode, sdp_id_check in identity mode
PolicyLookup(o, stanzas, pkt, env) ==
    IF ConfY(o.config.DISABLE_SDP_MODE)
    THEN [ok |-> src_check(stanzas, pkt), acc |-> 0,
          t |-> <<Ev("src_check", 0, src_check(stanzas, pkt))>>]
    ELSE sdp_id_check(stanzas, pkt, env)

\* The first part of incoming_spa, lines 1277-1327, ends with the policy
\* lookup.  It yields the locals of incoming_spa at that point: done (the
\* function has returned), acc (the stanza the identity lookup found),
\* raw_digest, and the world w.

\* lines 1318-1327: found is what the policy lookup returned
Lookup(o, pkt, raw_digest, env, w, found) ==
    [done |-> ~found.ok, acc |-> found.acc, raw_digest |-> <<raw_digest>>,
     w |-> [w EXCEPT !.trace = w.trace \o found.t]]

\* lines 1313-1316: rc is what replay_check returned
Screen(o, pkt, env, w, rc) ==
    IF ~rc.ok
    THEN [done |-> TRUE, acc |-> 0, raw_digest |-> <<>>,
          w |-> [w EXCEPT !.trace = w.trace \o <<[op |-> "replay_check", stanza |-> 0,
                                                  ok |-> FALSE,
                                                  data |-> pkt.packet_data]>>]]
    ELSE Lookup(o, pkt, rc.raw_digest, env,
                [w EXCEPT !.trace = w.trace \o <<[op |-> "replay_check", stanza |-> 0,
                                                  ok |-> TRUE, data |-> pkt.packet_data]>>],
                PolicyLookup(o, w.stanzas, pkt, env))

\* a pipeline that goes on to the replay screen whatever preprocessing said
Prechecked_Lenient(o, stanzas, replay, spa_pkt0, env, pre) ==
    Screen(o, pre.pkt, env,
           [replay |-> replay, stanzas |-> stanzas, acc |-> <<>>, ctx |-> "NULL",
            spadat |-> Spadat0(spa_pkt0), pkt |-> pre.pkt,
            trace |-> <<[op |-> "preprocess_spa_data", stanza |-> 0,
                         ok |-> pre.ok, res |-> pre.res]>>],
           replay_check(o, replay, pre.pkt, env))

\* lines 1296-1311: pre is what precheck_pkt returned
Prechecked(o, stanzas, replay, spa_pkt0, env, pre) ==
    IF ~pre.ok
    THEN [done |-> TRUE, acc |-> 0, raw_digest |-> <<>>,
          w |-> [replay |-> replay, stanzas |-> stanzas, acc |-> <<>>, ctx |-> "NULL",
                 spadat |-> Spadat0(spa_pkt0), pkt |-> pre.pkt,
                 trace |-> <<[op |-> "preprocess_spa_data", stanza |-> 0,
                              ok |-> FALSE, res |-> pre.res]>>]]
    ELSE Screen(o, pre.pkt, env,
                [replay |-> replay, stanzas |-> stanzas, acc |-> <<>>, ctx |-> "NULL",
                 spadat |-> Spadat0(spa_pkt0), pkt |-> pre.pkt,
                 trace |-> <<[op |-> "preprocess_spa_data", stanza |-> 0,
                              ok |-> TRUE, res |-> pre.res]>>],
                replay_check(o, replay, pre.pkt, env))

\* lines 1329-1399: the second part of incoming_spa, from the locals f the
\* first part left: the search through the stanzas and the final clean-up
SearchStanzas(o, env, f) ==
    IF f.done THEN f.w
    ELSE DestroyCtx(Search(o, f.w.pkt, f.acc, f.raw_digest[1], env, f.w), 0, env)

\* incoming_spa: the stanza list, the replay store and the packet slot it
\* leaves, and the trace of what it did
incoming_spa(o, stanzas, replay, spa_pkt0, env) ==
    SearchStanzas(o, env,
        Prechecked(o, stanzas, replay, spa_pkt0, env, precheck_pkt(o.config, spa_pkt0)))

(***************************************************************************)
(* Configurations, access stanzas and datagrams the runs are drawn from    *)
(***************************************************************************)
Conf(persist, classic, aging, legacy) ==
    [ENABLE_SPA_OVER_HTTP |-> "N", DISABLE_SDP_MODE |-> classic,
     ENABLE_DIGEST_PERSISTENCE |-> persist, ENABLE_SPA_PACKET_AGING |-> aging,
     MAX_SPA_PACKET_AGE |-> MaxAge, ALLOW_LEGACY_ACCESS_REQUESTS |-> legacy,
     FIREWALL |-> "iptables", ENABLE_FORWARDING |-> "N", ENABLE_LOCAL_NAT |-> "N",
     UDPSERV_PORT |-> 62201, RULES_CHECK_THRESHOLD |-> 0]

Opts(tst, persist, classic, aging, legacy) ==
    [config |-> Conf(persist, classic, aging, legacy), test |-> tst,
     enable_fw |-> TRUE, packet_ctr_limit |-> 0]

Net(ip, bits) == [net |-> ntohl(ip), bits |-> bits]

\* a stanza for clients in 1.2.0.0/16 holding the key "k", allowed tcp/22 and
\* the service 77
Stanza ==
    [source_list |-> {Net(<<1,2,0,0>>, 16)}, destination_list |-> {},
     use_rijndael |-> TRUE, key |-> <<"k">>,
     use_gpg |-> FALSE, gpg_decrypt_pw |-> <<>>, gpg_allow_no_pw |-> FALSE,
     gpg_exe |-> <<>>, gpg_home_dir |-> <<>>, gpg_decrypt_id |-> <<>>,
     gpg_require_sig |-> FALSE, gpg_ignore_sig_error |-> FALSE,
     gpg_remote_id_list |-> {}, gpg_remote_fpr_list |-> {},
     require_source_address |-> FALSE, require_username |-> <<>>,
     enable_cmd_exec |-> FALSE, enable_cmd_sudo_exec |-> FALSE,
     cmd_sudo_exec_user |-> <<>>, cmd_sudo_exec_group |-> <<>>,
     cmd_exec_user |-> <<>>, cmd_exec_group |-> <<>>,
     cmd_cycle_open |-> FALSE,
     fw_access_timeout |-> 0, access_expire_time |-> 0, expired |-> FALSE,
     open_ports |-> {Str_tcp22}, restrict_ports |-> {}, service_list |-> {Str_svc1},
     sdp_id_key |-> <<>>]

StanzaWrongKey == [Stanza EXCEPT !.key = <<"w">>]
StanzaNoKey == [Stanza EXCEPT !.use_rijndael = FALSE, !.key = <<>>]
StanzaCycle == [Stanza EXCEPT !.cmd_cycle_open = TRUE]
StanzaCmd == [Stanza EXCEPT !.enable_cmd_exec = TRUE]
StanzaReqSrc == [Stanza EXCEPT !.require_source_address = TRUE]
StanzaExpiring == [Stanza EXCEPT !.access_expire_time = Now0]
StanzaExpired == [Stanza EXCEPT !.access_expire_time = Now0 - 1]
StanzaOtherSrc == [Stanza EXCEPT !.source_list = {Net(<<7,7,0,0>>, 16)}]
StanzaTimeout == [Stanza EXCEPT !.fw_access_timeout = 60]
StanzaNoPorts == [Stanza EXCEPT !.open_ports = {}, !.service_list = {}]

\* every list of 1..MaxStanzas stanzas over the profiles P
ListsOver(P) == UNION {[1..n -> P] : n \in 1..MaxStanzas}

\* a ciphertext of the minimum length: key tag, message tag, filler
Cipher(key, m) == <<key, m>> \o Rep("A", MIN_SPA_DATA_SIZE - 2)

\* the same behind the 6 characters of an encoded SDP client id
SdpCipher(id, key, m) ==
    id \o <<key, m>> \o Rep("A", MIN_SPA_DATA_SIZE - 2 - B64_SDP_ID_STR_LEN)

\* the encodings of the client ids 1, 2 and 3
B64_Id1 == <<"A","Q","A","A","A","A">>
B64_Id2 == <<"A","g","A","A","A","A">>
B64_Id3 == <<"A","w","A","A","A","A">>

\* a stanza stored in the hash table under client id n
WithId(acc, n) == [acc EXCEPT !.sdp_id_key = DecStr(n)]

\* the lists whose stanzas have distinct client ids
DistinctIds(L) ==
    {l \in L : \A i, j \in DOMAIN l : i # j => l[i].sdp_id_key # l[j].sdp_id_key}

\* an HTTP request of the fwknop client carrying the SPA text in its path
HttpRequest(spa) ==
    <<"G","E","T"," ","/">> \o spa
        \o <<" ","H","T","T","P","/","1",".","0","\r","\n">>
        \o USER_AGENT \o <<"/","2","\r","\n">>

\* a ciphertext as the client writes it into a URL: '-' for '+', '_' for '/'
UrlCipher(key, m, len) == <<key, m, "-", "_">> \o Rep("A", len - 4)

Dgram(data, src) == [data |-> data, src_ip |-> src, src_port |-> 40000,
                     dst_ip |-> <<10, 0, 0, 1>>]

Client == <<1, 2, 3, 4>>
Client2 == <<1, 2, 9, 9>>
Stranger == <<9, 9, 9, 9>>

(***************************************************************************)
(* udp_server.c: run_udp_server                                            *)
(***************************************************************************)
SpaPkt0 == [packet_data |-> <<>>, packet_data_len |-> 0, packet_proto |-> "",
            packet_src_ip |-> INADDR_ANY, packet_dst_ip |-> INADDR_ANY,
            packet_src_port |-> 0, packet_dst_port |-> 0,
            sdp_id |-> 0, sdp_id_str |-> <<>>]

\* lines 235-244: the slot as the receiver fills it from a datagram; saddr is
\* the address the socket was bound to
FillSlot(slot, dgram, pkt_len) ==
    [slot EXCEPT !.packet_data = Take(dgram.data, pkt_len),
                 !.packet_data_len = pkt_len,
                 !.packet_proto = "IPPROTO_UDP",
                 !.packet_src_ip = dgram.src_ip,
                 !.packet_dst_ip = INADDR_ANY,
                 !.packet_src_port = dgram.src_port,
                 !.packet_dst_port = opts.config.UDPSERV_PORT,
                 !.sdp_id = 0]

\* a loop top that does not look at the signal flag
LoopTop_IgnoreSignal ==
    /\ pc = "top"
    /\ pc' = "select"
    /\ UNCHANGED <<opts, acc_stanzas, replay_cache, spa_pkt, now, got_signal,
                   check_rules_ctr, packet_ctr, loop_calls, environment,
                   inflight, log>>

\* udp_server.c lines 149-171: the top of the loop.  The signal flag is
\* tested; outside test mode the rule-check counter is raised when the
\* firewall is on and a threshold is set, and check_firewall_rules is called
\* (line 172), or cmd_cycle_close (line 178) when the firewall is off.  The
\* step ends inside the call, where the process waits for the firewall
\* programs; in test mode it ends at the select.
LoopTop ==
    /\ pc = "top"
    /\ IF got_signal
       THEN /\ pc' = "exit"
            /\ UNCHANGED check_rules_ctr
       ELSE IF opts.test
       THEN /\ pc' = "select"
            /\ UNCHANGED check_rules_ctr
       ELSE /\ pc' = IF opts.enable_fw THEN "check_firewall_rules" ELSE "cmd_cycle_close"
            /\ check_rules_ctr' =
                  IF opts.enable_fw /\ opts.config.RULES_CHECK_THRESHOLD > 0
                  THEN IF (check_rules_ctr + 1) % opts.config.RULES_CHECK_THRESHOLD = 0
                       THEN 0 ELSE check_rules_ctr + 1
                  ELSE check_rules_ctr
    /\ UNCHANGED <<opts, acc_stanzas, replay_cache, spa_pkt, now, got_signal,
                   packet_ctr, loop_calls, environment, inflight, log>>

\* udp_server.c lines 172-190: the call of the loop the process was in
\* returns.  After check_firewall_rules comes the call of cmd_cycle_close
\* (line 178), after cmd_cycle_close the select (line 190).  The signal flag
\* is not looked at here: a signal that arrived meanwhile is seen at the next
\* loop top.
LoopCallReturned ==
    /\ pc \in {"check_firewall_rules", "cmd_cycle_close"}
    /\ loop_calls' = loop_calls \cup {pc}
    /\ pc' = IF pc = "check_firewall_rules" THEN "cmd_cycle_close" ELSE "select"
    /\ UNCHANGED <<opts, acc_stanzas, replay_cache, spa_pkt, now, got_signal,
                   check_rules_ctr, packet_ctr, environment, inflight, log>>

\* lines 190-214: select() without a datagram: interrupted, failed, or timed
\* out; a time-out is when the clock is seen to advance
SelectIdle ==
    /\ pc = "select"
    /\ \E selval \in {"EINTR", "error", "timeout"} :
          /\ pc' = IF selval = "error" THEN "exit" ELSE "top"
          /\ now' = IF selval = "timeout" /\ now < Now0 + environment.ticks
                    THEN now + 1 ELSE now
    /\ UNCHANGED <<opts, acc_stanzas, replay_cache, spa_pkt, got_signal, check_rules_ctr,
                   packet_ctr, loop_calls, environment,
                   inflight, log>>

\* lines 251-263: the packet count and its limit
Counted ==
    /\ packet_ctr' = packet_ctr + 1
    /\ pc' = IF opts.packet_ctr_limit # 0 /\ packet_ctr + 1 >= opts.packet_ctr_limit
             THEN "exit" ELSE "top"

\* lines 216-246: a datagram is read with recvfrom, copied into the packet
\* slot, and incoming_spa is called.  The faults its collaborators answer
\* with while this packet is processed are drawn here.
Receive ==
    /\ pc = "select"
    /\ packet_ctr < MaxPackets
    /\ \E dgram \in environment.wire, fault \in environment.faults :
          LET pkt_len == IF Len(dgram.data) > MAX_SPA_PACKET_LEN
                         THEN MAX_SPA_PACKET_LEN ELSE Len(dgram.data)
          IN  IF pkt_len > 0 /\ pkt_len <= MAX_SPA_PACKET_LEN
              THEN /\ spa_pkt' = FillSlot(spa_pkt, dgram, pkt_len)
                   /\ inflight' = <<[dgram |-> dgram, fault |-> fault,
                                     slot |-> FillSlot(spa_pkt, dgram, pkt_len),
                                     signalled |-> got_signal,
                                     stanzas |-> acc_stanzas, replay |-> replay_cache,
                                     clock |-> now, jump |-> 0,
                                     front |-> <<>>, back |-> <<>>, at |-> 0]>>
                   /\ pc' = "incoming_spa"
                   /\ UNCHANGED packet_ctr
              ELSE /\ Counted
                   /\ UNCHANGED <<spa_pkt, inflight>>
    /\ UNCHANGED <<opts, acc_stanzas, replay_cache, now, got_signal, check_rules_ctr,
                   loop_calls, environment, log>>

\* incoming_spa has returned with the world r for the call c: back in
\* run_udp_server, lines 246-263.  A process that was killed goes nowhere.
Returned(c, r, jump) ==
    /\ acc_stanzas' = r.stanzas
    /\ replay_cache' = r.replay
    /\ log' = Append(log, [dgram |-> c.dgram, slot |-> c.slot, clock |-> c.clock,
                           jump |-> jump, fault |-> c.fault, stanzas |-> c.stanzas,
                           replay |-> c.replay, pkt |-> r.pkt,
                           trace |-> r.trace, ctx |-> r.ctx,
                           signalled |-> c.signalled,
                           interrupted |-> got_signal /\ ~c.signalled])
    /\ inflight' = <<>>
    /\ IF r.trace[Len(r.trace)].op = "SIGSEGV"
       THEN pc' = "dead" /\ UNCHANGED packet_ctr
       ELSE Counted

\* The calls in which the process waits for something outside it: for the
\* hash table's mutex (sdp_id_check, line 417), for GPG to decrypt (line 726),
\* for a command to end (lines 569, 578), and for the firewall programs
\* (lines 1196, 1258, 1267)
WaitOps == {"pthread_mutex_lock", "fko_decrypt_spa_data", "run_extcmd", "run_extcmd_as",
            "cmd_cycle_open", "process_spa_request"}

\* the first event behind position x of the trace that is such a call, 0 when
\* there is none
NextWait(tr, x) ==
    IF \E y \in (x + 1)..Len(tr) : tr[y].op \in WaitOps
    THEN CHOOSE y \in (x + 1)..Len(tr) :
            /\ tr[y].op \in WaitOps
            /\ \A z \in (x + 1)..(y - 1) : tr[z].op \notin WaitOps
    ELSE 0

\* The stanza list and the replay store while the process is inside the call
\* that is event x of the trace tr: what the events before x have written.
\* check_stanza_expiration leaves the expired flag set whenever it fails
\* (lines 356-368), add_replay_cache has stored the digest when it succeeded
\* (lines 1040-1063); found is the stanza of the identity lookup, to which
\* the events of stanza number 0 belong.
AtCall(stanzas, replay, tr, x, found) ==
    [stanzas |->
        [k \in DOMAIN stanzas |->
            IF \E y \in 1..(x - 1) :
                  /\ tr[y].op = "check_stanza_expiration" /\ ~tr[y].ok
                  /\ k = IF tr[y].stanza = 0 THEN found ELSE tr[y].stanza
            THEN [stanzas[k] EXCEPT !.expired = TRUE]
            ELSE stanzas[k]],
     replay |-> replay \cup {tr[y].digest :
                                y \in {z \in 1..(x - 1) : tr[z].op = "add_replay"
                                                          /\ tr[z].ok}}]

\* the call c goes on behind event x of the trace of its search r: into the
\* next call it waits in, or to the return of incoming_spa
GoOn(c, r, x, found) ==
    IF NextWait(r.trace, x) # 0
    THEN /\ pc' = "wait"
         /\ inflight' = <<[c EXCEPT !.at = NextWait(r.trace, x)]>>
         /\ acc_stanzas' = AtCall(c.stanzas, c.replay, r.trace,
                                  NextWait(r.trace, x), found).stanzas
         /\ replay_cache' = AtCall(c.stanzas, c.replay, r.trace,
                                   NextWait(r.trace, x), found).replay
         /\ UNCHANGED <<packet_ctr, log>>
    ELSE Returned(c, r, c.jump)

\* incoming_spa.c lines 1277-1327: the packet is preprocessed, screened for a
\* replay and looked up (src_check, or sdp_id_check under the hash table's
\* mutex); the function returns here when one of the three turns the packet
\* away.  Where the look-up takes the mutex the step ends in the wait for it
\* (line 417), the slot rewritten and the replay store read.
Screening ==
    /\ pc = "incoming_spa"
    /\ \E f \in {Prechecked(opts, acc_stanzas, replay_cache, inflight[1].slot,
                             [fault |-> inflight[1].fault, clock |-> now, jump |-> 0],
                             precheck_pkt(opts.config, inflight[1].slot))} :
          /\ spa_pkt' = f.w.pkt
          /\ IF NextWait(f.w.trace, 0) # 0
             THEN /\ pc' = "mutex_lock"
                  /\ inflight' = <<[inflight[1] EXCEPT !.front = <<f>>]>>
                  /\ UNCHANGED <<acc_stanzas, replay_cache, packet_ctr, log>>
             ELSE IF f.done
             THEN Returned(inflight[1], f.w, 0)
             ELSE /\ pc' = "search"
                  /\ inflight' = <<[inflight[1] EXCEPT !.front = <<f>>]>>
                  /\ UNCHANGED <<acc_stanzas, replay_cache, packet_ctr, log>>
    /\ UNCHANGED <<opts, now, got_signal, check_rules_ctr, loop_calls, environment>>

\* incoming_spa.c lines 1329-1399: the stanzas are gone through with the
\* stanza pointer and the digest the first part left, the lock no longer
\* held, up to the first call the process waits in or, when there is none,
\* to the return.  The clock may move on by a second while this is done,
\* before any one of the readings of time(): jump is the number of the first
\* reading that sees the later second, 0 when none does.  When the look-up
\* under the mutex turned the packet away, the mutex was released at line
\* 424 and what is left is the log and the return of sdp_id_check (lines
\* 426-432), the jump of incoming_spa to its clean-up (lines 1323-1324,
\* 1380-1399) and the count of udp_server.c lines 249-263: no stanza is gone
\* through and no clock read.
Searching ==
    /\ pc = "search"
    /\ \E jump \in (IF inflight[1].front[1].done THEN {0}
                    ELSE 0..(2 * Len(acc_stanzas))) :
          /\ jump # 0 => now < Now0 + environment.ticks
          /\ now' = IF jump # 0 THEN now + 1 ELSE now
          /\ \E r \in {SearchStanzas(opts, [fault |-> inflight[1].fault, clock |-> now,
                                             jump |-> jump],
                                      inflight[1].front[1])} :
                /\ spa_pkt' = r.pkt
                /\ GoOn([inflight[1] EXCEPT !.jump = jump, !.back = <<r>>], r,
                        Len(inflight[1].front[1].w.trace), inflight[1].front[1].acc)
    /\ UNCHANGED <<opts, got_signal, check_rules_ctr, loop_calls, environment>>

\* The call the process was waiting in returns.  Out of the wait for the
\* mutex (lines 417-424) the look-up is done and the mutex released: the
\* step ends at the release whether the look-up found a stanza or not, and
\* where pthread_mutex_lock failed it ends with the failure of the call
\* (line 417); nothing is returned or counted in this step.  Out of an external program the search
\* goes on to the next call it waits in or to the return.
Resumed ==
    /\ pc \in {"mutex_lock", "wait"}
    /\ IF pc = "mutex_lock"
       THEN /\ pc' = "search"
            /\ UNCHANGED <<acc_stanzas, replay_cache, packet_ctr, log,
                           inflight>>
       ELSE GoOn(inflight[1], inflight[1].back[1], inflight[1].at,
                 inflight[1].front[1].acc)
    /\ UNCHANGED <<opts, spa_pkt, now, got_signal, check_rules_ctr, loop_calls,
                   environment>>

\* a terminating signal is delivered, at any point of the loop or of the
\* processing of a packet: the handler only sets the flag
Signal ==
    /\ ~got_signal
    /\ pc \notin {"exit", "dead"}
    /\ got_signal' = TRUE
    /\ UNCHANGED <<opts, acc_stanzas, replay_cache, spa_pkt, now, pc, check_rules_ctr,
                   packet_ctr, loop_calls, environment,
                   inflight, log>>

Next == LoopTop \/ LoopCallReturned \/ SelectIdle \/ Receive \/ Screening \/ Searching \/ Resumed \/ Signal

(***************************************************************************)
(* Specifications                                                          *)
(***************************************************************************)
InitWith(O, L, W, F, ticks) ==
    /\ opts \in O
    /\ acc_stanzas \in L
    /\ environment = [wire |-> W, faults |-> F, ticks |-> ticks]
    /\ replay_cache = {}
    /\ spa_pkt = SpaPkt0
    /\ now = Now0
    /\ pc = "top"
    /\ got_signal = FALSE
    /\ check_rules_ctr = 0
    /\ packet_ctr = 0
    /\ loop_calls = {}
    /\ inflight = <<>>
    /\ log = <<>>

\* classic mode, live and test: lists of firewall, command-cycle and command
\* stanzas, access and command messages; the command-cycle open may fail
Init ==
    InitWith({Opts(t, "Y", "Y", "N", "Y") : t \in BOOLEAN},
             ListsOver({Stanza, StanzaCycle, StanzaCmd}),
             {Dgram(Cipher("k", "a"), Client), Dgram(Cipher("k", "c"), Client)},
             {"none", "cycle_open"}, 0)

Spec == Init /\ [][Next]_vars

\* classic mode, live: lists of well-keyed, mis-keyed, keyless and
\* command-cycle stanzas
SpecKeys ==
    /\ InitWith({Opts(FALSE, "Y", "Y", "N", "Y")},
                ListsOver({Stanza, StanzaWrongKey, StanzaNoKey, StanzaCycle}),
                {Dgram(Cipher("k", "a"), Client), Dgram(Cipher("w", "a"), Client)},
                {"none"}, 0)
    /\ [][Next]_vars

\* replay: persistence on, live mode; the same payload arrives again, also
\* from a second client address; the store's insert may fail
SpecReplay ==
    /\ InitWith({Opts(FALSE, "Y", "Y", "N", "Y")},
                ListsOver({Stanza, StanzaCycle, StanzaCmd}),
                {Dgram(Cipher("k", "a"), Client), Dgram(Cipher("k", "a"), Client2),
                 Dgram(Cipher("k", "c"), Client)},
                {"none", "add_replay"}, 0)
    /\ [][Next]_vars

\* commit: packets that fail at each stage before and at decryption
SpecCommit ==
    /\ InitWith({Opts(FALSE, "Y", "Y", "N", "Y")},
                ListsOver({Stanza, StanzaOtherSrc, StanzaExpired}),
                {Dgram(Cipher("k", "a"), Client), Dgram(Cipher("w", "a"), Client),
                 Dgram(Cipher("k", "a"), Stranger), Dgram(<<"k", "a">>, Client)},
                {"none"}, 0)
    /\ [][Next]_vars

\* aging: fresh, stale and far-future timestamps while the clock advances
SpecAging ==
    /\ InitWith({Opts(FALSE, "N", "Y", "Y", "Y")},
                ListsOver({Stanza, StanzaCycle}),
                {Dgram(Cipher("k", "a"), Client), Dgram(Cipher("k", "o"), Client),
                 Dgram(Cipher("k", "f"), Client)},
                {"none"}, MaxTick)
    /\ [][Next]_vars

\* expiry: stanzas without an expiry time and stanzas that expire one second
\* after start-up, while the clock advances between packets and between the
\* stanzas of one packet
SpecExpire ==
    /\ InitWith({Opts(FALSE, "N", "Y", "N", "Y")},
                ListsOver({Stanza, StanzaExpiring}),
                {Dgram(Cipher("k", "a"), Client), Dgram(Cipher("k", "p"), Client)},
                {"none"}, MaxTick)
    /\ [][Next]_vars

\* identity mode: stanzas stored under the ids 1 and 3, packets of the ids
\* 1, 2 and 3
SpecSdp ==
    /\ InitWith({Opts(FALSE, "Y", "N", "N", "Y")},
                DistinctIds(ListsOver({WithId(Stanza, 1), WithId(StanzaCycle, 1),
                                       WithId(StanzaCycle, 3)})),
                {Dgram(SdpCipher(B64_Id1, "k", "a"), Client),
                 Dgram(SdpCipher(B64_Id2, "k", "a"), Client),
                 Dgram(SdpCipher(B64_Id3, "k", "a"), Client)},
                {"none"}, 0)
    /\ [][Next]_vars

\* source policy: messages that embed 0.0.0.0 or the client's address, sent
\* from two addresses, to stanzas with and without REQUIRE_SOURCE_ADDRESS
\* and a message whose embedded address fills the sixteen bytes of the field
\* that receives it, so that the terminating NUL falls behind the field
InitSource ==
    InitWith({Opts(FALSE, "N", "Y", "N", "Y")},
             ListsOver({Stanza, StanzaReqSrc, StanzaCycle}),
             {Dgram(Cipher("k", "z"), Client2), Dgram(Cipher("k", "a"), Client2),
              Dgram(Cipher("k", "l"), Client2)},
             {"none", "overflow_spared"}, 0)

SpecSource == InitSource /\ [][Next]_vars

\* message types: legacy access, service access and command messages under
\* both settings of ALLOW_LEGACY_ACCESS_REQUESTS
InitLegacy ==
    InitWith({Opts(FALSE, "N", "Y", "N", l) : l \in {"Y", "N"}},
             ListsOver({Stanza, StanzaCmd}),
             {Dgram(Cipher("k", "a"), Client), Dgram(Cipher("k", "s"), Client),
              Dgram(Cipher("k", "c"), Client)},
             {"none"}, 0)

SpecLegacy == InitLegacy /\ [][Next]_vars

\* the wire format: plain and HTTP-wrapped ciphertexts (one too short, one
\* with a character outside base64), and payloads that begin with the
\* Rijndael salt prefix or the GPG prefix (one of them inside an HTTP
\* request), with SPA over HTTP on and off
SpecWire ==
    /\ InitWith({[Opts(FALSE, "Y", "Y", "N", "Y") EXCEPT !.config.ENABLE_SPA_OVER_HTTP = h] :
                      h \in {"Y", "N"}},
                 ListsOver({Stanza, StanzaWrongKey}),
                 {Dgram(Cipher("k", "a"), Client),
                  Dgram(HttpRequest(UrlCipher("k", "a", MIN_SPA_DATA_SIZE)), Client),
                  Dgram(HttpRequest(UrlCipher("k", "a", MIN_SPA_DATA_SIZE - 1)), Client),
                  Dgram(HttpRequest(<<"!">> \o UrlCipher("k", "a", MIN_SPA_DATA_SIZE)), Client),
                  Dgram(B64_RIJNDAEL_SALT \o Cipher("k", "a"), Client),
                  Dgram(HttpRequest(B64_RIJNDAEL_SALT \o Cipher("k", "a")), Client),
                  Dgram(B64_GPG_PREFIX \o Rep("A", MIN_GNUPG_MSG_SIZE - 1), Client),
                  Dgram(B64_GPG_PREFIX \o Rep("A", MIN_GNUPG_MSG_SIZE - 2), Client)},
                 {"none"}, 0)
    /\ [][Next]_vars

\* timeouts: messages with and without a client timeout, stanzas with and
\* without FW_ACCESS_TIMEOUT
SpecTimeout ==
    /\ InitWith({Opts(FALSE, "N", "Y", "N", "Y")},
                 ListsOver({Stanza, StanzaTimeout, StanzaWrongKey}),
                 {Dgram(Cipher("k", "a"), Client), Dgram(Cipher("k", "d"), Client),
                  Dgram(Cipher("k", "s"), Client)},
                 {"none"}, 0)
    /\ [][Next]_vars

\* ends of the search: service and port requests against stanzas that permit
\* them and stanzas that permit nothing, messages whose embedded source is too
\* short or no IPv4 address, legacy requests allowed and denied; gathering the
\* service data may fail
SpecStop ==
    /\ InitWith({Opts(FALSE, "N", "Y", "N", l) : l \in {"Y", "N"}},
                 ListsOver({Stanza, StanzaNoPorts}),
                 {Dgram(Cipher("k", "a"), Client), Dgram(Cipher("k", "s"), Client),
                  Dgram(Cipher("k", "x"), Client), Dgram(Cipher("k", "i"), Client)},
                 {"none", "service_data"}, 0)
    /\ [][Next]_vars

\* both modes: stanzas stored under the ids 1 and 2, one of them mis-keyed,
\* one with REQUIRE_USERNAME bob; messages of the users bob and eve, with and
\* without a client id in front; locking the hash table's mutex may fail
SpecIdentity ==
    /\ InitWith({Opts(FALSE, "Y", c, "N", "Y") : c \in {"Y", "N"}},
                DistinctIds(ListsOver({WithId([Stanza EXCEPT !.require_username = Str_bob], 1),
                                       WithId(StanzaWrongKey, 1), WithId(Stanza, 2)})),
                {Dgram(SdpCipher(B64_Id1, "k", "u"), Client),
                 Dgram(SdpCipher(B64_Id2, "k", "a"), Client),
                 Dgram(Cipher("k", "u"), Client)},
                {"none", "mutex"}, 0)
    /\ [][Next]_vars

\* GPG: a stanza with both modes that requires a signature and has a
\* fingerprint list and a signer-id list, a GPG stanza without a decryption
\* password, and a command stanza with both modes; a short ciphertext, and
\* long ones under the GPG key (two signers) and under the symmetric key;
\* creating the GPG context may fail
SpecGpg ==
    /\ InitWith({Opts(FALSE, "Y", "Y", "N", "Y")},
                ListsOver({[Stanza EXCEPT !.use_gpg = TRUE, !.gpg_decrypt_pw = <<"p">>,
                               !.gpg_decrypt_id = <<"g">>, !.gpg_require_sig = TRUE,
                               !.gpg_remote_fpr_list = {<<"F","1">>},
                               !.gpg_remote_id_list = {<<"I","1">>}],
                           [StanzaNoKey EXCEPT !.use_gpg = TRUE,
                               !.gpg_decrypt_id = <<"g">>, !.gpg_require_sig = TRUE,
                               !.gpg_remote_fpr_list = {<<"F","1">>}],
                           [StanzaCmd EXCEPT !.use_gpg = TRUE, !.gpg_allow_no_pw = TRUE,
                               !.gpg_decrypt_id = <<"g">>]}),
                {Dgram(Cipher("k", "a"), Client),
                 Dgram(<<"g", "g">> \o Rep("A", MIN_GNUPG_MSG_SIZE - 2), Client),
                 Dgram(<<"g", "h">> \o Rep("A", MIN_GNUPG_MSG_SIZE - 2), Client),
                 Dgram(<<"k", "c">> \o Rep("A", MIN_GNUPG_MSG_SIZE - 2), Client)},
                {"none", "gpg_ctx"}, 0)
    /\ [][Next]_vars

\* commands: stanzas that run commands as they are, through sudo with a sudo
\* user and a sudo group, through sudo as another user and group, and through
\* sudo with an execution group and no sudo group, and a stanza that allows no
\* commands; the run call, the child and the zeroing of a context's data may
\* fail
SpecCmd ==
    /\ InitWith({Opts(FALSE, "N", "Y", "N", "Y")},
                ListsOver({Stanza, StanzaCmd,
                           [StanzaCmd EXCEPT !.enable_cmd_sudo_exec = TRUE,
                               !.cmd_sudo_exec_user = Str_bob,
                               !.cmd_sudo_exec_group = <<"s","t","a","f","f">>],
                           [StanzaCmd EXCEPT !.enable_cmd_sudo_exec = TRUE,
                               !.cmd_sudo_exec_user = Str_root,
                               !.cmd_sudo_exec_group = <<"s","t","a","f","f">>,
                               !.cmd_exec_user = Str_bob,
                               !.cmd_exec_group = <<"s","t","a","f","f">>],
                           [StanzaCmd EXCEPT !.enable_cmd_sudo_exec = TRUE,
                               !.cmd_exec_group = <<"s","t","a","f","f">>]}),
                {Dgram(Cipher("k", "c"), Client)},
                {"none", "cmd_run", "cmd_nonzero", "cmd_killed", "zero_out"}, 0)
    /\ [][Next]_vars

\* scope: a stanza that opens ports and services and a command-cycle stanza
\* with no open port and no service; a port request and a service request;
\* the command-cycle open may fail
SpecScope ==
    /\ InitWith({Opts(FALSE, "N", "Y", "N", "Y")},
                ListsOver({Stanza, [StanzaNoPorts EXCEPT !.cmd_cycle_open = TRUE]}),
                {Dgram(Cipher("k", "a"), Client), Dgram(Cipher("k", "s"), Client)},
                {"none", "cycle_open"}, 0)
    /\ [][Next]_vars

\* destinations: stanzas without a destination list, with the server's
\* address 10.0.0.1 as destination, and with another destination; datagrams
\* addressed to 10.0.0.1 from a known and from an unknown source
SpecDest ==
    /\ InitWith({Opts(FALSE, "Y", "Y", "N", "Y")},
                ListsOver({Stanza,
                           [Stanza EXCEPT !.destination_list = {Net(<<10,0,0,1>>, 32)}],
                           [Stanza EXCEPT !.destination_list = {Net(<<10,0,0,2>>, 32)}]}),
                {Dgram(Cipher("k", "a"), Client), Dgram(Cipher("k", "t"), Client),
                 Dgram(Cipher("k", "a"), Stranger)},
                {"none"}, 0)
    /\ [][Next]_vars

(***************************************************************************)
(* Properties.  They are stated over log, the record of every datagram     *)
(* handed to incoming_spa: the state it met and the trace of what was done. *)
(***************************************************************************)

\* some firewall request, command execution or command-cycle open was called
Acted(tr) == \E i \in DOMAIN tr : tr[i].op \in ActionOps

\* event e is a decryption with a key
IsDecryption(e) ==
    \/ e.op = "fko_decrypt_spa_data"
    \/ e.op = "fko_new_with_data" /\ e.key # <<>>

\* stanza n decrypted the packet
DecryptedAt(tr, n) ==
    \E i \in DOMAIN tr : IsDecryption(tr[i]) /\ tr[i].stanza = n /\ tr[i].ok

Decrypted(tr) == \E i \in DOMAIN tr : IsDecryption(tr[i]) /\ tr[i].ok

\* the replay store as packet i left it
ReplayAfter(i) ==
    IF i < Len(log) THEN log[i + 1].replay
    ELSE IF inflight # <<>> THEN inflight[1].replay ELSE replay_cache

LastEv(tr) == tr[Len(tr)]

\* C1: with digest persistence on and test mode off, once a packet decrypted
\* and was acted on, no later packet with the identical payload leads to a
\* firewall request, a command execution or a command-cycle open.
C1_ReplayNeverActs ==
    (ConfY(opts.config.ENABLE_DIGEST_PERSISTENCE) /\ ~opts.test) =>
        \A i, j \in DOMAIN log :
            (/\ i < j
             /\ log[i].dgram.data = log[j].dgram.data
             /\ Decrypted(log[i].trace) /\ Acted(log[i].trace))
            => ~Acted(log[j].trace)

\* an acted-on packet, then the same payload turned away by the replay screen
C1_Witness ==
    /\ ConfY(opts.config.ENABLE_DIGEST_PERSISTENCE) /\ ~opts.test
    /\ \E i, j \in DOMAIN log :
          /\ i < j
          /\ log[i].dgram.data = log[j].dgram.data
          /\ log[i].dgram.src_ip # log[j].dgram.src_ip
          /\ Decrypted(log[i].trace) /\ Acted(log[i].trace)
          /\ log[j].fault = "none"
          /\ LastEv(log[j].trace).op = "replay_check" /\ ~LastEv(log[j].trace).ok

\* C2: the digest is inserted only after a decryption succeeded in the same
\* stanza; a packet that no stanza decrypted (rejected by preprocessing, the
\* replay screen, the policy lookup, the source/destination filter, stanza
\* expiration or failed decryption everywhere) leaves the store as it was;
\* the store only ever grows by the digest of the packet at hand.
C2_CommitAfterDecrypt ==
    \A i \in DOMAIN log :
        LET tr == log[i].trace
        IN  /\ \A k \in DOMAIN tr :
                  tr[k].op = "add_replay" =>
                      \E j \in 1..(k - 1) :
                          IsDecryption(tr[j]) /\ tr[j].ok /\ tr[j].stanza = tr[k].stanza
            /\ ~Decrypted(tr) => ReplayAfter(i) = log[i].replay
            /\ ReplayAfter(i) \subseteq
                   log[i].replay \cup {RawDigest(log[i].pkt.packet_data)}

\* one packet that every stanza tried and failed to decrypt, the store left
\* alone, and one whose digest was stored after its decryption
C2_Witness ==
    \E i, j \in DOMAIN log :
        /\ \E k \in DOMAIN log[i].trace :
              IsDecryption(log[i].trace[k]) /\ ~log[i].trace[k].ok
        /\ ~Decrypted(log[i].trace)
        /\ ReplayAfter(i) = log[i].replay
        /\ Decrypted(log[j].trace)
        /\ ReplayAfter(j) # log[j].replay

\* the events of stanza n, and the same events numbered as stanza 1
StanzaEvents(tr, n) == SelectSeq(tr, LAMBDA e : e.stanza = n)

AsFirst(tr) == [x \in DOMAIN tr |-> [tr[x] EXCEPT !.stanza = 1]]

\* decryption of the packet with the stanza's key fails, or the stanza has no
\* key to attempt it with
MisKeyed(acc, pkt) ==
    /\ ~acc.use_gpg
    /\ \/ ~acc.use_rijndael
       \/ Decrypt(pkt.packet_data, acc.key, pkt.sdp_id).res # "FKO_SUCCESS"

KeptSearching(tr, n) ==
    \E x \in DOMAIN tr :
        tr[x].op = "verdict" /\ tr[x].stanza = n /\ tr[x].verdict = KEEP_SEARCHING

Stopped(tr, n) ==
    \E x \in DOMAIN tr :
        tr[x].op = "verdict" /\ tr[x].stanza = n /\ tr[x].verdict = STOP_SEARCHING

\* what the clock read for packet i at reading k of stanza number n
ReadAt(i, n, k) == time([clock |-> log[i].clock, jump |-> log[i].jump], n, k)

\* what packet i does against the list holding only its stanza k, the clock
\* reading for that stanza what it read in the list
Solo(i, k) ==
    incoming_spa(opts, <<log[i].stanzas[k]>>, log[i].replay, log[i].slot,
                 [fault |-> log[i].fault, clock |-> log[i].clock,
                  jump |-> IF log[i].jump = 0 \/ log[i].jump > 2 * k THEN 0
                           ELSE IF log[i].jump = 2 * k THEN 2 ELSE 1])

\* the single stanza took the packet: it acted and stopped the search
Accepted(tr) ==
    /\ \E x \in DOMAIN tr : tr[x].op \in ActionOps /\ tr[x].ok
    /\ Stopped(tr, 1)

\* C3: in classic mode, mis-keyed stanzas ahead of a stanza k that would take
\* the packet do not change the outcome: each of them returns KEEP_SEARCHING,
\* stanza k runs exactly the steps it runs as the only stanza of the list, the
\* action is taken through k and through no other stanza, and the replay store
\* ends the same.
C3_MisKeyedPrefixHarmless ==
    ConfY(opts.config.DISABLE_SDP_MODE) =>
        \A i \in DOMAIN log : \A k \in 1..Len(log[i].stanzas) :
            LET e == log[i]
                solo == Solo(i, k)
            IN  (/\ \A j \in 1..(k - 1) : MisKeyed(e.stanzas[j], e.pkt)
                 /\ Accepted(solo.trace))
                => /\ \A j \in 1..(k - 1) : KeptSearching(e.trace, j)
                   /\ AsFirst(StanzaEvents(e.trace, k)) = StanzaEvents(solo.trace, 1)
                   /\ \A x \in DOMAIN e.trace :
                         e.trace[x].op \in ActionOps => e.trace[x].stanza = k
                   /\ ReplayAfter(i) = solo.replay

\* a packet taken by the second stanza after the first failed to decrypt it
C3_Witness ==
    /\ ConfY(opts.config.DISABLE_SDP_MODE)
    /\ \E i \in DOMAIN log :
          /\ Len(log[i].stanzas) >= 2
          /\ MisKeyed(log[i].stanzas[1], log[i].pkt)
          /\ Accepted(Solo(i, 2).trace)
          /\ \E x \in DOMAIN log[i].trace :
                /\ log[i].trace[x].op = "fko_new_with_data"
                /\ log[i].trace[x].stanza = 1 /\ ~log[i].trace[x].ok
          /\ \E x \in DOMAIN log[i].trace :
                log[i].trace[x].op \in ActionOps /\ log[i].trace[x].stanza = 2

\* |clock - ts| > T, computed on the full width of time_t
OlderThan(clock, ts, T) == LongGt(labs(LongSub(LongOf(clock), ts)), LongOf(T))

\* C4: with packet aging on and MAX_SPA_PACKET_AGE = T, a packet whose
\* decrypted timestamp is more than T seconds from the current time leads to
\* no firewall request, no command execution and no command-cycle open,
\* whatever the stanza list.
C4_AgedNeverActs ==
    ConfY(opts.config.ENABLE_SPA_PACKET_AGING) =>
        \A i \in DOMAIN log :
            (\E x \in DOMAIN log[i].trace :
                /\ log[i].trace[x].op = "check_pkt_age"
                /\ OlderThan(ReadAt(i, log[i].trace[x].stanza, 2),
                             log[i].trace[x].timestamp,
                             opts.config.MAX_SPA_PACKET_AGE))
            => ~Acted(log[i].trace)

\* the packet passed preprocessing
Preprocessed(tr) == tr[1].op = "preprocess_spa_data" /\ tr[1].ok

\* C5: in identity mode a packet whose extracted client id is not a key of
\* the stanza table is never handed to the crypto library, commits no digest
\* and leads to no action.
C5_UnknownIdStopsEarly ==
    ~ConfY(opts.config.DISABLE_SDP_MODE) =>
        \A i \in DOMAIN log :
            LET e == log[i]
            IN  (/\ Preprocessed(e.trace)
                 /\ \A n \in DOMAIN e.stanzas : e.stanzas[n].sdp_id_key # e.pkt.sdp_id_str)
                => /\ \A x \in DOMAIN e.trace :
                         e.trace[x].op \notin {"fko_new_with_data", "fko_decrypt_spa_data",
                                                "add_replay"}
                   /\ ReplayAfter(i) = e.replay
                   /\ ~Acted(e.trace)

\* a packet of an unknown id that passed preprocessing and the replay screen
\* and was looked up in the table
C5_Witness ==
    /\ ~ConfY(opts.config.DISABLE_SDP_MODE)
    /\ \E i \in DOMAIN log :
          /\ Preprocessed(log[i].trace)
          /\ log[i].pkt.sdp_id = 2
          /\ \A n \in DOMAIN log[i].stanzas :
                log[i].stanzas[n].sdp_id_key # log[i].pkt.sdp_id_str
          /\ \E x \in DOMAIN log[i].trace :
                log[i].trace[x].op = "hash_table_get" /\ ~log[i].trace[x].ok
          /\ LastEv(log[i].trace).op = "sdp_id_check"

\* the dispatch events of stanza n
ActionsOf(tr, n) == {x \in DOMAIN tr : tr[x].op \in ActionOps /\ tr[x].stanza = n}

\* C6: for a decrypted message that embeds the source 0.0.0.0, a stanza with
\* require_source_address set rejects it and takes no action, and a stanza
\* without the flag hands the datagram's source address to dispatch; any other
\* embedded source is handed to dispatch as it is.
C6_SourcePolicy ==
    ConfY(opts.config.DISABLE_SDP_MODE) =>
        \A i \in DOMAIN log : \A x \in DOMAIN log[i].trace :
            LET tr == log[i].trace
                c == tr[x]
                acc == log[i].stanzas[c.stanza]
                zero == c.spa_message_src_ip = ZERO_IP_STR
                effective == IF zero THEN inet_ntop(log[i].dgram.src_ip)
                             ELSE c.spa_message_src_ip
            IN  c.op = "check_src_access" =>
                    /\ (zero /\ acc.require_source_address)
                           => /\ ~c.ok
                              /\ KeptSearching(tr, c.stanza)
                              /\ ActionsOf(tr, c.stanza) = {}
                    /\ ~(zero /\ acc.require_source_address) => c.ok
                    /\ \A y \in ActionsOf(tr, c.stanza) : tr[y].use_src_ip = effective

\* a message embedding 0.0.0.0 that the first stanza, requiring a source,
\* rejected and the second acted on with the datagram's address
C6_Witness ==
    \E i \in DOMAIN log :
        LET tr == log[i].trace
        IN  /\ Len(log[i].stanzas) >= 2
            /\ log[i].stanzas[1].require_source_address
            /\ \E x \in DOMAIN tr :
                  /\ tr[x].op = "check_src_access" /\ tr[x].stanza = 1 /\ ~tr[x].ok
                  /\ tr[x].spa_message_src_ip = ZERO_IP_STR
            /\ \E y \in ActionsOf(tr, 2) :
                  tr[y].use_src_ip = inet_ntop(log[i].dgram.src_ip)

\* the message-type check turned stanza n's message away: STOP_SEARCHING
\* right after the check and nothing dispatched
RejectedByType(tr, x) ==
    /\ ~tr[x].ok
    /\ x < Len(tr)
    /\ tr[x + 1] = VerdictEv(STOP_SEARCHING, "legacy", tr[x].stanza)
    /\ ~Acted(tr)

\* C7: a decrypted packet of a legacy message type is rejected by the
\* message-type check, with STOP_SEARCHING and no action, exactly when
\* ALLOW_LEGACY_ACCESS_REQUESTS is N; the other types always pass the check;
\* every stanza that decrypted the packet gets to the check.
C7_LegacyRejectedIffDenied ==
    \A i \in DOMAIN log :
        LET tr == log[i].trace
        IN  /\ \A x \in DOMAIN tr :
                  tr[x].op = "msg_type" =>
                      IF tr[x].message_type \in LegacyTypes
                      THEN RejectedByType(tr, x)
                              <=> ConfN(opts.config.ALLOW_LEGACY_ACCESS_REQUESTS)
                      ELSE tr[x].ok
            /\ \A x \in DOMAIN tr :
                  (IsDecryption(tr[x]) /\ tr[x].ok /\ log[i].fault = "none")
                  => \E y \in DOMAIN tr :
                        y > x /\ tr[y].op = "msg_type" /\ tr[y].stanza = tr[x].stanza

\* a legacy access message rejected by the check under N
C7_Witness ==
    /\ ConfN(opts.config.ALLOW_LEGACY_ACCESS_REQUESTS)
    /\ \E i \in DOMAIN log : \E x \in DOMAIN log[i].trace :
          /\ log[i].trace[x].op = "msg_type"
          /\ log[i].trace[x].message_type = "FKO_ACCESS_MSG"
          /\ RejectedByType(log[i].trace, x)

\* C8: in test mode no packet leads to a firewall request, a command
\* execution or a command-cycle open, and the receiver loop calls neither the
\* firewall rule check nor the command-cycle close: it is never inside one
\* of the two calls, and neither has returned.
C8_TestModeInert ==
    opts.test =>
        /\ \A i \in DOMAIN log : ~Acted(log[i].trace)
        /\ pc \notin {"check_firewall_rules", "cmd_cycle_close"}
        /\ loop_calls \cap {"check_firewall_rules", "cmd_cycle_close"} = {}

\* stanza n passed every check of the packet and got to the dispatch
FullyMatched(tr, n, acc) ==
    \E x \in DOMAIN tr :
        /\ tr[x].op = "verdict" /\ tr[x].stanza = n
        /\ \/ tr[x].why \in {"test", "process_spa_request", "cmd_cycle_open"}
           \/ tr[x].why = "process_cmd_msg" /\ acc.enable_cmd_exec

CycleOpenFailed(tr, n) ==
    \E x \in DOMAIN tr : tr[x].op = "cmd_cycle_open" /\ tr[x].stanza = n /\ ~tr[x].ok

\* the dispatch actions carried out for a packet
Dispatched(tr) == {x \in DOMAIN tr : tr[x].op \in ActionOps /\ tr[x].ok}

\* C9 as stated: in classic mode the first stanza that fully matches the
\* packet returns STOP, no later stanza is examined, and at most one dispatch
\* action is taken per packet.
C9_FirstMatchStopsAlways ==
    ConfY(opts.config.DISABLE_SDP_MODE) =>
        \A i \in DOMAIN log :
            /\ \A n \in DOMAIN log[i].stanzas :
                  FullyMatched(log[i].trace, n, log[i].stanzas[n])
                  => /\ Stopped(log[i].trace, n)
                     /\ \A x \in DOMAIN log[i].trace : log[i].trace[x].stanza <= n
            /\ Cardinality(Dispatched(log[i].trace)) <= 1

\* C9 as amended: in classic mode a stanza that fully matches the packet
\* ends the search (its processing returns STOP and no later stanza is
\* examined) except in two cases, where it returns KEEP_SEARCHING and the
\* next stanza of the list, if there is one, is examined: the stanza's
\* command-cycle open failed (lines 1200, 1262), or the daemon runs in test
\* mode and the stanza has no command cycle (lines 518-524 and 1214, line
\* 1252).  A stanza that has a command cycle is opened at line 1196, ahead
\* of the test-mode guard of line 1246, so in test mode too it returns STOP
\* when the open succeeds.  In every mode at most one dispatch is made per
\* packet.
C9_FirstMatchStops ==
    ConfY(opts.config.DISABLE_SDP_MODE) =>
        \A i \in DOMAIN log :
            /\ \A n \in DOMAIN log[i].stanzas :
                  FullyMatched(log[i].trace, n, log[i].stanzas[n])
                  => IF \/ CycleOpenFailed(log[i].trace, n)
                        \/ opts.test /\ ~log[i].stanzas[n].cmd_cycle_open
                     THEN /\ KeptSearching(log[i].trace, n)
                          /\ ~Stopped(log[i].trace, n)
                          /\ n < Len(log[i].stanzas)
                             => \E x \in DOMAIN log[i].trace :
                                   log[i].trace[x].stanza = n + 1
                     ELSE /\ Stopped(log[i].trace, n)
                          /\ \A x \in DOMAIN log[i].trace : log[i].trace[x].stanza <= n
            /\ Cardinality(Dispatched(log[i].trace)) <= 1

\* live mode, a list of two stanzas: for one packet the first stanza matched,
\* made the one dispatch, and the second was not examined; for another the
\* command-cycle open of the first stanza failed, the stanza returned
\* KEEP_SEARCHING, and the second stanza matched, made the one firewall
\* request and stopped the search
C9_Witness ==
    /\ ConfY(opts.config.DISABLE_SDP_MODE) /\ ~opts.test
    /\ \E i \in DOMAIN log :
          /\ Len(log[i].stanzas) >= 2
          /\ FullyMatched(log[i].trace, 1, log[i].stanzas[1])
          /\ Stopped(log[i].trace, 1)
          /\ Cardinality(Dispatched(log[i].trace)) = 1
          /\ \A x \in DOMAIN log[i].trace : log[i].trace[x].stanza <= 1
    /\ \E j \in DOMAIN log :
          /\ Len(log[j].stanzas) >= 2
          /\ FullyMatched(log[j].trace, 1, log[j].stanzas[1])
          /\ CycleOpenFailed(log[j].trace, 1)
          /\ KeptSearching(log[j].trace, 1)
          /\ FullyMatched(log[j].trace, 2, log[j].stanzas[2])
          /\ Stopped(log[j].trace, 2)
          /\ Cardinality(Dispatched(log[j].trace)) = 1
          /\ \E x \in Dispatched(log[j].trace) :
                log[j].trace[x].op = "process_spa_request"

\* the replay screen let the packet through
PassedReplayScreen(tr) ==
    \E x \in DOMAIN tr : tr[x].op = "replay_check" /\ tr[x].ok

\* C11: in test mode the replay store is never modified: every packet leaves
\* the set of stored digests as it found it, and the identical datagram
\* processed again (same collaborator answers) passes the replay screen and
\* goes through the same steps to the same verdicts.
C11_TestModeKeepsStore ==
    opts.test =>
        /\ replay_cache = {}
        /\ \A i \in DOMAIN log :
              /\ ReplayAfter(i) = log[i].replay
              /\ \A x \in DOMAIN log[i].trace : log[i].trace[x].op # "add_replay"
        /\ \A i, j \in DOMAIN log :
              (i < j /\ log[i].dgram = log[j].dgram /\ log[i].fault = log[j].fault)
              => /\ PassedReplayScreen(log[i].trace) <=> PassedReplayScreen(log[j].trace)
                 /\ log[j].trace = log[i].trace

\* test mode with digest persistence on: a packet was decrypted by a stanza,
\* then the identical datagram passed the replay screen and was decrypted
\* again
C11_Witness ==
    /\ opts.test /\ ConfY(opts.config.ENABLE_DIGEST_PERSISTENCE)
    /\ \E i, j \in DOMAIN log :
          /\ i < j /\ log[i].dgram = log[j].dgram /\ log[i].fault = log[j].fault
          /\ Decrypted(log[i].trace)
          /\ PassedReplayScreen(log[j].trace)
          /\ Decrypted(log[j].trace)
          /\ log[j].trace = log[i].trace

\* stanza n decrypted the packet and found a command message in it
CommandAt(tr, n) ==
    /\ DecryptedAt(tr, n)
    /\ \E x \in DOMAIN tr :
          tr[x].op = "msg_type" /\ tr[x].stanza = n
          /\ tr[x].message_type = "FKO_COMMAND_MSG"

\* stanza n turned the command message away at process_cmd_msg
CommandDenied(tr, n) ==
    \E x \in DOMAIN tr : tr[x] = VerdictEv(KEEP_SEARCHING, "process_cmd_msg", n)

\* C12 as stated: a decrypted COMMAND message met by a stanza with
\* enable_cmd_exec off is rejected by that stanza and no command of any kind
\* is run for that stanza.
C12_CommandDeniedAlways ==
    \A i \in DOMAIN log : \A n \in DOMAIN log[i].stanzas :
        (CommandAt(log[i].trace, n) /\ ~log[i].stanzas[n].enable_cmd_exec)
        => /\ KeptSearching(log[i].trace, n)
           /\ ActionsOf(log[i].trace, n) = {}

\* C12, amended: a decrypted COMMAND message met by a stanza with
\* enable_cmd_exec off and no command cycle is rejected by that stanza at
\* process_cmd_msg with KEEP_SEARCHING and nothing is run for it; when the
\* stanza has a command cycle, the cycle's open command is invoked instead and
\* process_cmd_msg is not reached, so neither run_extcmd nor run_extcmd_as is
\* ever called for a stanza with enable_cmd_exec off.
C12_CommandDenied ==
    \A i \in DOMAIN log : \A n \in DOMAIN log[i].stanzas :
        LET tr == log[i].trace
            acc == log[i].stanzas[n]
        IN  (CommandAt(tr, n) /\ ~acc.enable_cmd_exec)
            => /\ \A x \in ActionsOf(tr, n) : tr[x].op = "cmd_cycle_open"
               /\ ~acc.cmd_cycle_open => (CommandDenied(tr, n) /\ ActionsOf(tr, n) = {})
               /\ acc.cmd_cycle_open => (ActionsOf(tr, n) # {} /\ ~CommandDenied(tr, n))

\* live mode: the first stanza, without command execution, turned the command
\* message away and the second, with it, ran the command
C12_Witness ==
    /\ ~opts.test
    /\ \E i \in DOMAIN log :
          /\ Len(log[i].stanzas) >= 2
          /\ ~log[i].stanzas[1].enable_cmd_exec /\ ~log[i].stanzas[1].cmd_cycle_open
          /\ CommandAt(log[i].trace, 1)
          /\ CommandDenied(log[i].trace, 1)
          /\ \E x \in ActionsOf(log[i].trace, 2) : log[i].trace[x].op = "run_extcmd"

\* the stanza list as packet i left it
StanzasAfter(i) ==
    IF i < Len(log) THEN log[i + 1].stanzas
    ELSE IF inflight # <<>> THEN inflight[1].stanzas ELSE acc_stanzas

\* the packet passed the source/destination filter of stanza n
ReachedStanza(tr, n) ==
    \E x \in DOMAIN tr : tr[x].op = "src_dst_check" /\ tr[x].stanza = n /\ tr[x].ok

\* C13: a stanza with access_expire_time > 0 and the clock past it never
\* yields an action: a packet that passes its source/destination filter leaves
\* its expired flag set and gets KEEP_SEARCHING from the expiration check, with
\* no decryption attempted and no digest committed on behalf of that stanza.
C13_ExpiredStanzaInert ==
    \A i \in DOMAIN log : \A n \in DOMAIN log[i].stanzas :
        LET tr == log[i].trace
            acc == log[i].stanzas[n]
        IN  (acc.access_expire_time > 0 /\ ReadAt(i, n, 1) > acc.access_expire_time)
            => /\ ActionsOf(tr, n) = {}
               /\ \A x \in DOMAIN tr :
                     tr[x].stanza = n =>
                         tr[x].op \notin {"fko_new_with_data", "fko_decrypt_spa_data",
                                          "add_replay"}
               /\ ReachedStanza(tr, n)
                     => /\ StanzasAfter(i)[n].expired
                        /\ \E x \in DOMAIN tr :
                              tr[x] = VerdictEv(KEEP_SEARCHING, "check_stanza_expiration", n)

\* a packet that met an expired stanza whose flag was not yet set, left it
\* set, and was acted on by the stanza after it
C13_Witness ==
    \E i \in DOMAIN log :
        /\ Len(log[i].stanzas) >= 2
        /\ log[i].stanzas[1].access_expire_time > 0
        /\ ReadAt(i, 1, 1) > log[i].stanzas[1].access_expire_time
        /\ ~log[i].stanzas[1].expired
        /\ ReachedStanza(log[i].trace, 1)
        /\ StanzasAfter(i)[1].expired
        /\ ActionsOf(log[i].trace, 2) # {}

\* the first whitespace of s, or one past its end
FirstSpace(s) ==
    IF \E p \in DOMAIN s : isspace(s[p])
    THEN CHOOSE p \in DOMAIN s : isspace(s[p]) /\ \A q \in 1..(p - 1) : ~isspace(s[q])
    ELSE Len(s) + 1

\* the bytes of an HTTP request from offset 5 up to the first whitespace, with
\* '-' read as '+' and '_' as '/'
HttpRegion(d) ==
    LET rest == From(d, 6)
        raw == SubSeq(rest, 1, FirstSpace(rest) - 1)
    IN  [k \in DOMAIN raw |-> CASE raw[k] = "-" -> "+"
                                [] raw[k] = "_" -> "/"
                                [] OTHER -> raw[k]]

\* the datagram is an HTTP request of the fwknop client
LooksLikeHttp(d) ==
    HasPrefix(d, <<"G","E","T"," ","/">>) /\ strstr(d, USER_AGENT)

\* C14: with ENABLE_SPA_OVER_HTTP = Y, for a request that begins with "GET /"
\* and contains "User-Agent: Fwknop", a region shorter than MIN_SPA_DATA_SIZE
\* is rejected with BAD_DATA; otherwise the converted region is the text the
\* base64 test decides on, the text left in the slot with the region's length
\* as the payload length, the text the replay screen digests, the digest that
\* is committed, and the text every decryption is given.
C14_HttpPayload ==
    (ConfY(opts.config.ENABLE_SPA_OVER_HTTP) /\ ConfY(opts.config.DISABLE_SDP_MODE)) =>
        \A i \in DOMAIN log :
            LET d == log[i].dgram.data
                region == HttpRegion(d)
                tr == log[i].trace
            IN  LooksLikeHttp(d) =>
                    IF Len(region) < MIN_SPA_DATA_SIZE
                    THEN tr = <<[op |-> "preprocess_spa_data", stanza |-> 0, ok |-> FALSE,
                                 res |-> "SPA_MSG_BAD_DATA"]>>
                    ELSE /\ tr[1].res = IF is_base64(region, Len(region))
                                        THEN "FKO_SUCCESS" ELSE "SPA_MSG_NOT_SPA_DATA"
                         /\ log[i].pkt.packet_data = region
                         /\ log[i].pkt.packet_data_len = Len(region)
                         /\ \A x \in DOMAIN tr :
                               /\ tr[x].op = "replay_check" => tr[x].data = region
                               /\ tr[x].op = "add_replay" => tr[x].digest = RawDigest(region)
                               /\ tr[x].op \in {"fko_new_with_data", "fko_decrypt_spa_data"}
                                     => tr[x].data = region

\* a request whose path holds '-' and '_' was unwrapped, decrypted and acted
\* on, and one with a path of 139 characters was rejected
C14_Witness ==
    /\ ConfY(opts.config.ENABLE_SPA_OVER_HTTP)
    /\ \E i \in DOMAIN log :
          /\ LooksLikeHttp(log[i].dgram.data)
          /\ \E k \in DOMAIN log[i].dgram.data : log[i].dgram.data[k] = "_"
          /\ Len(log[i].pkt.packet_data) = MIN_SPA_DATA_SIZE
          /\ \E k \in DOMAIN log[i].pkt.packet_data : log[i].pkt.packet_data[k] = "/"
          /\ Decrypted(log[i].trace) /\ Acted(log[i].trace)
          /\ RawDigest(HttpRegion(log[i].dgram.data)) \in ReplayAfter(i)
    /\ \E j \in DOMAIN log :
          /\ LooksLikeHttp(log[j].dgram.data)
          /\ Len(HttpRegion(log[j].dgram.data)) = MIN_SPA_DATA_SIZE - 1
          /\ ~Preprocessed(log[j].trace)

\* the plaintext stanza n of packet i reads from the packet
PlainAt(i, n) ==
    Decrypt(log[i].pkt.packet_data, log[i].stanzas[n].key, log[i].pkt.sdp_id).msg

\* C15: the timeout handed to the firewall actuator with an accepted access
\* message is the message's client_timeout when that is greater than 0,
\* otherwise the stanza's fw_access_timeout when that is greater than 0,
\* otherwise DEF_FW_ACCESS_TIMEOUT.
C15_EffectiveTimeout ==
    ConfY(opts.config.DISABLE_SDP_MODE) =>
        \A i \in DOMAIN log : \A x \in DOMAIN log[i].trace :
            LET e == log[i].trace[x]
                acc == log[i].stanzas[e.stanza]
                m == PlainAt(i, e.stanza)
            IN  e.op = "process_spa_request" =>
                    e.timeout = IF m.client_timeout > 0 THEN m.client_timeout
                                ELSE IF acc.fw_access_timeout > 0 THEN acc.fw_access_timeout
                                ELSE DEF_FW_ACCESS_TIMEOUT

\* a stanza with its own timeout was handed a message with a client timeout
\* and one without: the firewall got the client's value, then the stanza's
C15_Witness ==
    \E i, j \in DOMAIN log : \E x \in DOMAIN log[i].trace : \E y \in DOMAIN log[j].trace :
        LET e == log[i].trace[x]
            f == log[j].trace[y]
        IN  /\ e.op = "process_spa_request" /\ f.op = "process_spa_request"
            /\ log[i].stanzas[e.stanza].fw_access_timeout > 0
            /\ PlainAt(i, e.stanza).client_timeout > 0
            /\ e.timeout = PlainAt(i, e.stanza).client_timeout
            /\ e.timeout # log[i].stanzas[e.stanza].fw_access_timeout
            /\ PlainAt(j, f.stanza).client_timeout = 0
            /\ f.timeout = log[j].stanzas[f.stanza].fw_access_timeout
            /\ f.timeout # DEF_FW_ACCESS_TIMEOUT

\* the step an event belongs to, in the order of the pipeline; 0 for the
\* clean-up, which is no step
StepOf(e) ==
    CASE e.op = "preprocess_spa_data" -> 1
      [] e.op = "replay_check" -> 2
      [] e.op \in {"src_check", "sdp_id_check", "pthread_mutex_lock", "hash_table_get",
                   "pthread_mutex_unlock", "conf_pkt_age"} -> 3
      [] e.op = "src_dst_check" -> 4
      [] e.op = "check_stanza_expiration" -> 5
      [] e.op \in {"fko_new_with_data", "fko_decrypt_spa_data"} -> 6
      [] e.op = "add_replay" -> 7
      [] e.op \in {"msg_type", "check_pkt_age", "check_src_access", "check_username",
                   "check_service_access", "gather_service_information",
                   "check_port_proto"} -> 8
      [] e.op \in ActionOps -> 9
      [] e.op = "verdict" -> 10
      [] OTHER -> 0

\* some event before position y, of step k and of stanza n, succeeded
PassedBefore(tr, y, k, n) ==
    \E x \in 1..(y - 1) : StepOf(tr[x]) = k /\ tr[x].stanza = n /\ tr[x].ok

\* the steps that must have passed before event y: the packet-wide ones for
\* every later event, the stanza's filters for every later event of the
\* stanza, a decryption for everything that follows decryption
PrerequisitesMet(tr, y) ==
    LET k == StepOf(tr[y])
        n == tr[y].stanza
    IN  /\ k >= 2 => PassedBefore(tr, y, 1, 0)
        /\ k >= 3 => PassedBefore(tr, y, 2, 0)
        /\ k >= 4 => \E x \in 1..(y - 1) :
                        tr[x].op \in {"src_check", "sdp_id_check"} /\ tr[x].ok
        /\ (k >= 5 /\ k <= 9) => PassedBefore(tr, y, 4, n)
        /\ (k >= 6 /\ k <= 9) => PassedBefore(tr, y, 5, n)
        /\ (k >= 7 /\ k <= 9) => PassedBefore(tr, y, 6, n)

\* C16: within one packet the steps run in the order preprocess, replay
\* screen, policy lookup, then per stanza source/destination filter, stanza
\* expiration, decryption, replay commit, message validation, dispatch; the
\* stanzas are taken in list order; a step runs only after every earlier step
\* of the packet (or of the stanza) passed, so no decryption is attempted on a
\* packet that failed preprocessing, the replay screen or the policy lookup.
C16_FixedOrder ==
    \A i \in DOMAIN log :
        LET tr == log[i].trace
        IN  /\ StepOf(tr[1]) = 1
            /\ \A y \in DOMAIN tr : StepOf(tr[y]) # 0 => PrerequisitesMet(tr, y)
            /\ \A x, y \in DOMAIN tr :
                  (x < y /\ StepOf(tr[x]) # 0 /\ StepOf(tr[y]) # 0)
                  => /\ tr[x].stanza <= tr[y].stanza
                     /\ (tr[x].stanza = 0 \/ tr[x].stanza = tr[y].stanza)
                           => /\ StepOf(tr[x]) <= StepOf(tr[y])
                              /\ (StepOf(tr[x]) < StepOf(tr[y]) /\ tr[y].op # "verdict")
                                    => tr[x].ok

\* the steps that occur in a trace
StepsIn(tr) == {StepOf(tr[x]) : x \in DOMAIN tr}

\* one packet went through every step to a dispatch at the second stanza
\* after the first turned it away, and one packet ended at the replay screen
C16_Witness ==
    \E i, j \in DOMAIN log :
        /\ StepsIn(log[i].trace) = 0..10
        /\ KeptSearching(log[i].trace, 1)
        /\ ActionsOf(log[i].trace, 2) # {}
        /\ StepsIn(log[j].trace) = {1, 2}
        /\ ~LastEv(log[j].trace).ok

\* the reasons for which a stanza ends the search without accepting: the
\* message type, the embedded source address, the service policy
StopReasons == {"fko_get_spa_message_type", "legacy", "src_ip_len", "is_valid_ipv4_addr",
                "check_service_access", "gather_service_information"}

\* stanza n ended the search for reason why
StoppedFor(tr, n, why) == \E x \in DOMAIN tr : tr[x] = VerdictEv(STOP_SEARCHING, why, n)

\* no stanza after n was examined
NothingAfter(tr, n) == \A x \in DOMAIN tr : tr[x].stanza <= n

\* C17: when a stanza ends the search without accepting (message type not
\* permitted, embedded source address of invalid length or not an IPv4
\* address, service denied, service data not gathered), no later stanza is
\* examined and no firewall request, command or command-cycle open is carried
\* out for the packet, even if a later stanza would have accepted it.
C17_StopWithoutAccept ==
    \A i \in DOMAIN log : \A n \in DOMAIN log[i].stanzas : \A why \in StopReasons :
        StoppedFor(log[i].trace, n, why)
        => /\ NothingAfter(log[i].trace, n)
           /\ Dispatched(log[i].trace) = {}
           /\ \A m \in n..Len(log[i].stanzas) : ActionsOf(log[i].trace, m) = {}

\* the first stanza denied the service and ended the search for a packet
\* that the second stanza, alone, accepts; and a message with a bad embedded
\* address ended the search at the first of two stanzas
C17_Witness ==
    /\ \E i \in DOMAIN log :
          /\ Len(log[i].stanzas) >= 2
          /\ StoppedFor(log[i].trace, 1, "check_service_access")
          /\ Accepted(Solo(i, 2).trace)
          /\ ~Acted(log[i].trace)
    /\ \E j \in DOMAIN log :
          /\ Len(log[j].stanzas) >= 2
          /\ \/ StoppedFor(log[j].trace, 1, "src_ip_len")
             \/ StoppedFor(log[j].trace, 1, "is_valid_ipv4_addr")
             \/ StoppedFor(log[j].trace, 1, "legacy")

\* the message type stanza n read from the packet is a service-access one
ServiceMsgAt(tr, n) ==
    \E x \in DOMAIN tr :
        /\ tr[x].op = "msg_type" /\ tr[x].stanza = n
        /\ tr[x].message_type \in {"FKO_SERVICE_ACCESS_MSG",
                                   "FKO_CLIENT_TIMEOUT_SERVICE_ACCESS_MSG"}

\* C18: the service policy is applied to service-access messages and a denial
\* ends the search with STOP_SEARCHING and no action; the port/protocol policy
\* is applied to the other access messages and a denial at stanza k gives
\* KEEP_SEARCHING, after which the next stanza, if there is one, is examined.
C18_ServiceStopsPortKeeps ==
    ConfY(opts.config.DISABLE_SDP_MODE) =>
        \A i \in DOMAIN log : \A x \in DOMAIN log[i].trace :
            LET tr == log[i].trace
                e == tr[x]
            IN  /\ e.op = "check_service_access"
                      => /\ ServiceMsgAt(tr, e.stanza)
                         /\ ~e.ok => /\ tr[x + 1] = VerdictEv(STOP_SEARCHING,
                                                              "check_service_access", e.stanza)
                                     /\ NothingAfter(tr, e.stanza)
                                     /\ Dispatched(tr) = {}
                /\ e.op = "check_port_proto"
                      => /\ ~ServiceMsgAt(tr, e.stanza)
                         /\ ~e.ok => /\ tr[x + 1] = VerdictEv(KEEP_SEARCHING,
                                                              "check_port_proto", e.stanza)
                                     /\ e.stanza < Len(log[i].stanzas)
                                           => ReachedStanza(tr, e.stanza + 1)

\* a port request denied by the first stanza and granted by the second, and a
\* service request denied by the first stanza with nothing done after it
C18_Witness ==
    /\ \E i \in DOMAIN log :
          /\ \E x \in DOMAIN log[i].trace :
                log[i].trace[x] = Ev("check_port_proto", 1, FALSE)
          /\ \E y \in ActionsOf(log[i].trace, 2) :
                log[i].trace[y].op = "process_spa_request"
    /\ \E j \in DOMAIN log :
          /\ Len(log[j].stanzas) >= 2
          /\ \E x \in DOMAIN log[j].trace :
                log[j].trace[x] = Ev("check_service_access", 1, FALSE)
          /\ NothingAfter(log[j].trace, 1)
          /\ log[j].stanzas[2].service_list # {}

\* C19: after the preprocessing of any packet, accepted or rejected,
\* HTTP-wrapped or not, the packet length field of the shared packet slot is
\* zero: in the slot as incoming_spa left it for every packet it returned
\* from, and in the slot of the packet in hand once preprocess_spa_data has
\* run on it.  Nothing is said of the slot between the read of a datagram
\* and its preprocessing, where the length is that of the datagram.
C19_SlotLengthZero ==
    /\ \A i \in DOMAIN log : log[i].pkt.packet_data_len = 0
    /\ pc \in {"mutex_lock", "search", "wait"} => spa_pkt.packet_data_len = 0

\* the payload begins with one of the two prefixes a genuine packet never
\* carries on the wire
HasBannedPrefix(slot) ==
    \/ HasPrefix(slot.packet_data, B64_RIJNDAEL_SALT)
    \/ /\ slot.packet_data_len > MIN_GNUPG_MSG_SIZE
       /\ HasPrefix(slot.packet_data, B64_GPG_PREFIX)

\* C20: a packet whose payload begins with the base64 Rijndael salt prefix,
\* or is longer than MIN_GNUPG_MSG_SIZE and begins with the base64 GPG prefix,
\* is rejected by preprocessing with BAD_DATA: nothing else is done with it,
\* it reaches neither the replay screen nor a decryption, and the replay
\* store is left as it was.
C20_PrefixedRejected ==
    \A i \in DOMAIN log :
        HasBannedPrefix(log[i].slot)
        => /\ log[i].trace = <<[op |-> "preprocess_spa_data", stanza |-> 0, ok |-> FALSE,
                                res |-> "SPA_MSG_BAD_DATA"]>>
           /\ ReplayAfter(i) = log[i].replay

\* a packet with the salt prefix ahead of a ciphertext the stanza would
\* decrypt and a long packet with the GPG prefix, both rejected
C20_Witness ==
    \E i, j \in DOMAIN log :
        /\ HasPrefix(log[i].slot.packet_data, B64_RIJNDAEL_SALT)
        /\ log[i].slot.packet_data_len >= MIN_SPA_DATA_SIZE
        /\ ~HasPrefix(log[j].slot.packet_data, B64_RIJNDAEL_SALT)
        /\ HasBannedPrefix(log[j].slot)
        /\ log[i].trace[1].res = "SPA_MSG_BAD_DATA"
        /\ log[j].trace[1].res = "SPA_MSG_BAD_DATA"

\* the datagram's source address is in no stanza's source_list
UnknownSource(e) ==
    \A n \in DOMAIN e.stanzas :
        ~compare_addr_list(e.stanzas[n].source_list, ntohl(e.dgram.src_ip))

\* C21: in classic mode a packet whose datagram source address is in no
\* stanza's source_list is dropped before any stanza is processed: no step of
\* any stanza runs, no decryption is attempted, no digest is committed and no
\* action is taken.
C21_UnknownSourceDropped ==
    ConfY(opts.config.DISABLE_SDP_MODE) =>
        \A i \in DOMAIN log :
            UnknownSource(log[i])
            => /\ \A x \in DOMAIN log[i].trace :
                     /\ log[i].trace[x].stanza = 0
                     /\ log[i].trace[x].op \notin {"fko_new_with_data", "fko_decrypt_spa_data",
                                                    "add_replay", "src_dst_check"}
               /\ ReplayAfter(i) = log[i].replay
               /\ ~Acted(log[i].trace)

\* a well-formed, never seen packet from an address no stanza lists, whose
\* processing ended at the source check
C21_Witness ==
    /\ ConfY(opts.config.DISABLE_SDP_MODE)
    /\ \E i \in DOMAIN log :
          /\ UnknownSource(log[i])
          /\ PassedReplayScreen(log[i].trace)
          /\ LastEv(log[i].trace) = Ev("src_check", 0, FALSE)
          /\ \E n \in DOMAIN log[i].stanzas :
                Decrypt(log[i].pkt.packet_data, log[i].stanzas[n].key, 0).res = "FKO_SUCCESS"

\* the stanza the identity lookup returns for packet i, 0 for none
Found(i) == hash_table_get(log[i].stanzas, log[i].pkt.sdp_id_str)

\* the lookup of packet i returned a stanza
LookupHit(tr) == \E x \in DOMAIN tr : tr[x] = Ev("sdp_id_check", 0, TRUE)

\* how many stanza attempts the trace holds: each begins with src_dst_check
Attempts(tr) == Len(SelectSeq(tr, LAMBDA e : e.op = "src_dst_check"))

Verdicts(tr) == SelectSeq(tr, LAMBDA e : e.op = "verdict")

\* C22: in identity mode exactly one stanza, the one the identity lookup
\* returned, is attempted per packet: there is one attempt and one verdict,
\* every decryption uses that stanza's key, and the packet is processed exactly
\* as if the list held that stanza alone, whether the verdict is
\* KEEP_SEARCHING or STOP_SEARCHING.
C22_OneStanzaInIdentityMode ==
    ~ConfY(opts.config.DISABLE_SDP_MODE) =>
        \A i \in DOMAIN log :
            LET tr == log[i].trace
            IN  IF LookupHit(tr)
                THEN /\ Attempts(tr) = 1
                     /\ Len(Verdicts(tr)) = 1
                     /\ \A x \in DOMAIN tr :
                           IsDecryption(tr[x]) => tr[x].key = log[i].stanzas[Found(i)].key
                     /\ tr = Solo(i, Found(i)).trace
                     /\ ReplayAfter(i) = Solo(i, Found(i)).replay
                ELSE Attempts(tr) = 0 /\ Verdicts(tr) = <<>>

\* a list of two stanzas in identity mode: one packet whose stanza returned
\* KEEP_SEARCHING while the other stanza's key would have decrypted it, and
\* one packet whose stanza acted and returned STOP_SEARCHING
C22_Witness ==
    /\ ~ConfY(opts.config.DISABLE_SDP_MODE)
    /\ \E i, j \in DOMAIN log :
          /\ Len(log[i].stanzas) = 2
          /\ LookupHit(log[i].trace)
          /\ Verdicts(log[i].trace)[1].verdict = KEEP_SEARCHING
          /\ \E n \in DOMAIN log[i].stanzas :
                /\ n # Found(i)
                /\ Decrypt(log[i].pkt.packet_data, log[i].stanzas[n].key,
                           log[i].pkt.sdp_id).res = "FKO_SUCCESS"
          /\ LookupHit(log[j].trace)
          /\ Verdicts(log[j].trace)[1].verdict = STOP_SEARCHING
          /\ Acted(log[j].trace)

\* stanza n of the trace got as far as decryption: it passed the address
\* filter and had not expired
ReachedDecryption(tr, n) ==
    \E x \in DOMAIN tr : tr[x] = Ev("check_stanza_expiration", n, TRUE)

\* stanza n attempted symmetric decryption: a context created with a key
SymAttempted(tr, n) ==
    \E x \in DOMAIN tr :
        tr[x].op = "fko_new_with_data" /\ tr[x].stanza = n /\ tr[x].key # <<>>

SymSucceeded(tr, n) ==
    \E x \in DOMAIN tr :
        tr[x].op = "fko_new_with_data" /\ tr[x].stanza = n /\ tr[x].key # <<>> /\ tr[x].ok

\* stanza n attempted GPG decryption: a context created without a key, to be
\* decrypted by fko_decrypt_spa_data
GpgAttempted(tr, n) ==
    \E x \in DOMAIN tr :
        tr[x].op = "fko_new_with_data" /\ tr[x].stanza = n /\ tr[x].key = <<>>

GpgSucceeded(tr, n) ==
    \E x \in DOMAIN tr :
        tr[x].op = "fko_decrypt_spa_data" /\ tr[x].stanza = n /\ tr[x].ok

CommittedAt(tr, n) ==
    \E x \in DOMAIN tr : tr[x].op = "add_replay" /\ tr[x].stanza = n

\* C23: for each stanza that gets as far as decryption, symmetric decryption
\* is attempted iff the stanza has use_rijndael and (the detected type is
\* RIJNDAEL or the stanza enables command exec); GPG decryption is attempted
\* iff the stanza has use_gpg, the detected type is GPG, no symmetric
\* decryption has succeeded, and (gpg_decrypt_pw is set or gpg_allow_no_pw);
\* when neither is attempted, or no attempt succeeds, the stanza yields
\* KEEP_SEARCHING and commits no digest.
C23_DecryptionAttempts ==
    \A i \in DOMAIN log : \A n \in DOMAIN log[i].stanzas :
        LET tr == log[i].trace
            acc == log[i].stanzas[n]
            enc_type == fko_encryption_type(log[i].pkt.packet_data)
        IN  ReachedDecryption(tr, n)
            => /\ SymAttempted(tr, n)
                    <=> (acc.use_rijndael
                         /\ (enc_type = FKO_ENCRYPTION_RIJNDAEL \/ acc.enable_cmd_exec))
               /\ GpgAttempted(tr, n)
                    <=> (/\ acc.use_gpg
                         /\ enc_type = FKO_ENCRYPTION_GPG
                         /\ ~SymSucceeded(tr, n)
                         /\ (acc.gpg_decrypt_pw # <<>> \/ acc.gpg_allow_no_pw))
               /\ (~SymSucceeded(tr, n) /\ ~GpgSucceeded(tr, n))
                    => (KeptSearching(tr, n) /\ ~CommittedAt(tr, n))

\* one packet of the GPG type that met, in this order or another, a stanza
\* that attempted nothing, and a stanza with command exec whose symmetric
\* attempt succeeded so that GPG was not tried; and one packet for which a
\* symmetric attempt failed and the GPG attempt that followed succeeded
C23_Witness ==
    \E i, j \in DOMAIN log :
        /\ fko_encryption_type(log[i].pkt.packet_data) = FKO_ENCRYPTION_GPG
        /\ \E n, m \in DOMAIN log[i].stanzas :
              /\ ReachedDecryption(log[i].trace, n)
              /\ ~SymAttempted(log[i].trace, n) /\ ~GpgAttempted(log[i].trace, n)
              /\ KeptSearching(log[i].trace, n)
              /\ log[i].stanzas[m].use_gpg
              /\ SymSucceeded(log[i].trace, m) /\ ~GpgAttempted(log[i].trace, m)
        /\ \E n \in DOMAIN log[j].stanzas :
              /\ SymAttempted(log[j].trace, n) /\ ~SymSucceeded(log[j].trace, n)
              /\ GpgSucceeded(log[j].trace, n)

\* the plaintext stanza acc's GPG key yields for the packet
GpgPlain(acc, pkt) == Decrypt(pkt.packet_data, acc.gpg_decrypt_id, pkt.sdp_id).msg

\* the signer check as the specification words it: the fingerprint list
\* decides when there is one, the signer-id list when there is no
\* fingerprint list
SignerPasses(acc, msg) ==
    IF acc.gpg_remote_fpr_list # {} THEN msg.gpg_sig_fpr \in acc.gpg_remote_fpr_list
    ELSE IF acc.gpg_remote_id_list # {} THEN msg.gpg_sig_id \in acc.gpg_remote_id_list
    ELSE TRUE

\* stanza n turned the packet away at the signer check
SignerRejected(tr, n) ==
    \E x \in DOMAIN tr :
        tr[x].op = "verdict" /\ tr[x].stanza = n /\ tr[x].why = "handle_gpg_sigs"

\* C24: for a GPG-encrypted packet that a stanza requiring a signature has
\* decrypted, the signer check passes iff the signature's fingerprint is on
\* the stanza's fingerprint list when it has one (whatever the signer-id list
\* says), else iff the signer id is on the signer-id list when it has one; a
\* failed signer check yields KEEP_SEARCHING.
C24_FingerprintFirst ==
    \A i \in DOMAIN log : \A n \in DOMAIN log[i].stanzas :
        LET tr == log[i].trace
            acc == log[i].stanzas[n]
        IN  (/\ log[i].fault = "none"
             /\ acc.gpg_require_sig
             /\ fko_encryption_type(log[i].pkt.packet_data) = FKO_ENCRYPTION_GPG
             /\ GpgSucceeded(tr, n))
            => /\ SignerRejected(tr, n) <=> ~SignerPasses(acc, GpgPlain(acc, log[i].pkt))
               /\ SignerRejected(tr, n) => KeptSearching(tr, n)

\* the user name in the plaintext stanza acc's key yields for the packet
UserOf(acc, pkt) == Decrypt(pkt.packet_data, acc.key, pkt.sdp_id).msg.username

\* stanza acc decrypts the packet and requires another user name than the
\* message carries
NameMismatch(acc, pkt) ==
    /\ acc.require_username # <<>>
    /\ Decrypt(pkt.packet_data, acc.key, pkt.sdp_id).res = "FKO_SUCCESS"
    /\ UserOf(acc, pkt) # acc.require_username

\* the list with REQUIRE_USERNAME removed from every stanza
Unnamed(stanzas) ==
    [n \in DOMAIN stanzas |-> [stanzas[n] EXCEPT !.require_username = <<>>]]

\* C25: REQUIRE_USERNAME is enforced in classic mode only.  In classic mode a
\* stanza with require_username set takes no action for a message of another
\* user, and returns KEEP_SEARCHING at the user name check when the message
\* gets that far.  In identity mode no stanza is left at the user name check,
\* and every packet is processed exactly as if no stanza had REQUIRE_USERNAME.
C25_UsernameClassicOnly ==
    \A i \in DOMAIN log :
        LET tr == log[i].trace
        IN  IF ConfY(opts.config.DISABLE_SDP_MODE)
            THEN \A n \in DOMAIN log[i].stanzas :
                    (ReachedDecryption(tr, n) /\ NameMismatch(log[i].stanzas[n], log[i].pkt))
                    => /\ KeptSearching(tr, n)
                       /\ ~\E x \in DOMAIN tr : tr[x].op \in ActionOps /\ tr[x].stanza = n
                       /\ (\E x \in DOMAIN tr : tr[x].op = "check_src_access"
                                                /\ tr[x].stanza = n /\ tr[x].ok)
                          => \E x \in DOMAIN tr :
                                /\ tr[x].op = "verdict" /\ tr[x].stanza = n
                                /\ tr[x].why = "check_username"
            ELSE /\ \A x \in DOMAIN tr :
                       /\ tr[x].op # "check_username"
                       /\ tr[x].op = "verdict" => tr[x].why # "check_username"
                 /\ tr = incoming_spa(opts, Unnamed(log[i].stanzas), log[i].replay,
                                      log[i].slot,
                                      [fault |-> log[i].fault, clock |-> log[i].clock,
                                       jump |-> log[i].jump]).trace

\* identity mode: the stanza found for the packet requires the user bob, the
\* message is eve's, and the firewall request is made through that stanza
C25_Witness ==
    /\ ~ConfY(opts.config.DISABLE_SDP_MODE)
    /\ \E i \in DOMAIN log :
          /\ LookupHit(log[i].trace)
          /\ NameMismatch(log[i].stanzas[Found(i)], log[i].pkt)
          /\ \E x \in DOMAIN log[i].trace :
                log[i].trace[x].op = "process_spa_request" /\ log[i].trace[x].ok
          /\ Verdicts(log[i].trace)[1].verdict = STOP_SEARCHING

\* stanza n accepted the request: the packet passed the source, user name and
\* NAT checks of the stanza and was handed to the dispatch
ReachedDispatch(tr, n) ==
    /\ \E x \in DOMAIN tr : tr[x].op = "check_src_access" /\ tr[x].stanza = n /\ tr[x].ok
    /\ \A x \in DOMAIN tr :
          (tr[x].op = "verdict" /\ tr[x].stanza = n)
          => tr[x].why \notin {"check_username", "check_nat_access_types"}

\* the command-cycle opens of stanza n
CycleOpens(tr, n) == {x \in DOMAIN tr : tr[x].op = "cmd_cycle_open" /\ tr[x].stanza = n}

\* the firewall requests and command executions of the packet
OtherActions(tr) ==
    {x \in DOMAIN tr : tr[x].op \in {"process_spa_request", "run_extcmd", "run_extcmd_as"}}

\* C26 as stated: when the stanza that accepted the request has cmd_cycle_open,
\* the command cycle is invoked and the search stops: neither the firewall
\* actuator nor a command execution is invoked for the packet, and no later
\* stanza is examined.
C26_CycleStopsAlways ==
    \A i \in DOMAIN log : \A n \in DOMAIN log[i].stanzas :
        LET tr == log[i].trace
        IN  (log[i].stanzas[n].cmd_cycle_open /\ ReachedDispatch(tr, n))
            => /\ Cardinality(CycleOpens(tr, n)) = 1
               /\ Stopped(tr, n)
               /\ OtherActions(tr) = {}
               /\ NothingAfter(tr, n)

\* C26, amended: when the stanza that accepted the request has cmd_cycle_open,
\* the command cycle is invoked once, in place of the firewall actuator and of
\* command execution through that stanza; when the open succeeds the search
\* stops, no later stanza is examined and neither the actuator nor a command
\* execution is invoked for the packet; when the open fails the stanza returns
\* KEEP_SEARCHING and the later stanzas are examined.
C26_CycleStops ==
    \A i \in DOMAIN log : \A n \in DOMAIN log[i].stanzas :
        LET tr == log[i].trace
        IN  (log[i].stanzas[n].cmd_cycle_open /\ ReachedDispatch(tr, n))
            => /\ Cardinality(CycleOpens(tr, n)) = 1
               /\ \A x \in OtherActions(tr) : tr[x].stanza # n
               /\ IF CycleOpenFailed(tr, n)
                  THEN /\ KeptSearching(tr, n)
                       /\ n < Len(log[i].stanzas) => ReachedStanza(tr, n + 1)
                  ELSE /\ Stopped(tr, n)
                       /\ OtherActions(tr) = {}
                       /\ NothingAfter(tr, n)

\* a packet whose first stanza opened its command cycle, the second stanza
\* never examined; and a packet whose first stanza failed to open its cycle
\* and whose second stanza then executed the command
C26_Witness ==
    \E i, j \in DOMAIN log :
        /\ Len(log[i].stanzas) = 2
        /\ log[i].stanzas[1].cmd_cycle_open /\ ReachedDispatch(log[i].trace, 1)
        /\ ~CycleOpenFailed(log[i].trace, 1)
        /\ Stopped(log[i].trace, 1) /\ NothingAfter(log[i].trace, 1)
        /\ log[j].stanzas[1].cmd_cycle_open /\ ReachedDispatch(log[j].trace, 1)
        /\ CycleOpenFailed(log[j].trace, 1)
        /\ OtherActions(log[j].trace) # {}

\* the command executions of a packet
Runs(tr) == {x \in DOMAIN tr : tr[x].op \in {"run_extcmd", "run_extcmd_as"}}

\* C27: after a COMMAND message has been executed, the result code is
\* SPA_MSG_COMMAND_ERROR exactly when the child terminated abnormally or
\* exited with a nonzero status, and otherwise it is the value the run call
\* returned; in both cases the stanza returns STOP_SEARCHING and no later
\* stanza is examined, so the command is executed once per packet.
C27_CommandResult ==
    \A i \in DOMAIN log :
        LET tr == log[i].trace
        IN  /\ \A x \in Runs(tr) :
                  /\ tr[x].res = IF ~tr[x].exited \/ tr[x].status # 0
                                 THEN "SPA_MSG_COMMAND_ERROR" ELSE tr[x].run
                  /\ Stopped(tr, tr[x].stanza)
                  /\ NothingAfter(tr, tr[x].stanza)
            /\ Cardinality(Runs(tr)) <= 1

\* two command stanzas in the list: one packet whose child was killed, the
\* result SPA_MSG_COMMAND_ERROR, and one whose run call failed before there
\* was a child, the result the run call's error; both ran once, through the
\* first stanza
C27_Witness ==
    \E i, j \in DOMAIN log :
        /\ Len(log[i].stanzas) = 2
        /\ log[i].stanzas[2].enable_cmd_exec
        /\ \E x \in Runs(log[i].trace) :
              /\ ~log[i].trace[x].exited
              /\ log[i].trace[x].stanza = 1
              /\ log[i].trace[x].res = "SPA_MSG_COMMAND_ERROR"
        /\ \E x \in Runs(log[j].trace) :
              /\ log[j].trace[x].exited /\ log[j].trace[x].status = 0
              /\ log[j].trace[x].res = "EXTCMD_FORK_ERROR"

\* the command text as the specification words it: through sudo, "-u user"
\* for a sudo user other than root, "-g group" for a sudo group other than
\* root, then the command body
SudoOption(flag, name) ==
    IF name # <<>> /\ ~IsRoot(name) THEN <<" ", "-", flag, " ">> \o name ELSE <<>>

\* C28: when enable_cmd_sudo_exec is set the executed command string is the
\* sudo executable, followed by "-u <user>" exactly when a sudo exec user is
\* configured and is not root, followed by "-g <group>" exactly when a sudo
\* exec group is configured and is not root, followed by the decoded command
\* body; when it is not set the command string is the command body alone.
C28_SudoCommandText ==
    \A i \in DOMAIN log :
        \A x \in Runs(log[i].trace) :
            LET acc == log[i].stanzas[log[i].trace[x].stanza]
                body == From(PlainAt(i, log[i].trace[x].stanza).spa_message,
                             strchr(PlainAt(i, log[i].trace[x].stanza).spa_message, ",") + 1)
            IN  log[i].trace[x].cmd =
                    IF acc.enable_cmd_sudo_exec
                    THEN SUDO_EXE \o SudoOption("u", acc.cmd_sudo_exec_user)
                                  \o SudoOption("g", acc.cmd_sudo_exec_group)
                                  \o <<" ">> \o body
                    ELSE body

\* the number of crypto contexts alive after the first k events of the trace:
\* those created and not yet destroyed
LiveCtx(tr, k) ==
    Cardinality({x \in 1..k : tr[x].op = "fko_new_with_data" /\ tr[x].ok})
        - Cardinality({x \in 1..k : tr[x].op = "fko_destroy"})

\* C29: a stanza attempt that ends with KEEP_SEARCHING while it holds a crypto
\* context has the context destroyed at once, so that every stanza attempt
\* begins with no context alive; a destroy that reports a zero-out failure
\* does not end the stanza loop; and when incoming_spa returns no context is
\* alive, however the packet ended.  A packet during which the process was
\* killed is one incoming_spa did not return from.
C29_ContextsDestroyed ==
    \A i \in DOMAIN log :
        LET tr == log[i].trace
        IN  /\ \A x \in DOMAIN tr :
                  /\ LiveCtx(tr, x) \in {0, 1}
                  /\ tr[x].op = "src_dst_check" => LiveCtx(tr, x) = 0
                  /\ (tr[x].op = "verdict" /\ tr[x].verdict = KEEP_SEARCHING
                      /\ LiveCtx(tr, x) = 1)
                     => /\ x < Len(tr)
                        /\ tr[x + 1].op = "fko_destroy"
                        /\ tr[x + 1].stanza = tr[x].stanza
                  /\ (tr[x].op = "fko_destroy" /\ ~tr[x].ok
                      /\ tr[x].stanza \in 1..(Len(log[i].stanzas) - 1))
                     => /\ x < Len(tr)
                        /\ tr[x + 1].op = "src_dst_check"
                        /\ tr[x + 1].stanza = tr[x].stanza + 1
            /\ tr[Len(tr)].op # "SIGSEGV"
                   => /\ LiveCtx(tr, Len(tr)) = 0
                      /\ log[i].ctx = "NULL"

\* a packet whose first stanza decrypted it and returned KEEP_SEARCHING, the
\* destroy of its context reporting a zero-out failure, and whose second
\* stanza then decrypted it again and executed the command
C29_Witness ==
    \E i \in DOMAIN log :
        LET tr == log[i].trace
        IN  /\ DecryptedAt(tr, 1) /\ KeptSearching(tr, 1)
            /\ \E x \in DOMAIN tr : tr[x] = Ev("fko_destroy", 1, FALSE)
            /\ DecryptedAt(tr, 2)
            /\ \E x \in Runs(tr) : tr[x].stanza = 2
            /\ LastEv(tr) = Ev("fko_destroy", 0, FALSE)
            /\ log[i].ctx = "NULL"

\* whether the hash table's mutex is held after the first k events of the trace
Held(tr, k) ==
    Cardinality({x \in 1..k : tr[x].op = "pthread_mutex_lock" /\ tr[x].ok})
        - Cardinality({x \in 1..k : tr[x].op = "pthread_mutex_unlock"})

\* locking the mutex failed for the packet
LockFailed(tr) == \E x \in DOMAIN tr : tr[x] = Ev("pthread_mutex_lock", 0, FALSE)

\* what holds of every packet processed in identity mode: the mutex is held
\* across the hash lookup and at no other event, so not at the return of the
\* lookup (hit, miss or lock failure), at a decryption, a check or a dispatch;
\* a packet whose lock failed ends at the lookup, with no stanza attempted,
\* nothing decrypted, nothing committed and no action
LockDiscipline(i) ==
    LET tr == log[i].trace
    IN  /\ \A x \in DOMAIN tr :
              /\ Held(tr, x) \in {0, 1}
              /\ Held(tr, x) = 1 => tr[x].op \in {"pthread_mutex_lock", "hash_table_get"}
              /\ tr[x].op = "hash_table_get" => Held(tr, x) = 1
        /\ Cardinality({x \in DOMAIN tr : tr[x].op = "hash_table_get"}) <= 1
        /\ Held(tr, Len(tr)) = 0
        /\ LockFailed(tr)
           => /\ LastEv(tr) = Ev("sdp_id_check", 0, FALSE)
              /\ Attempts(tr) = 0
              /\ \A x \in DOMAIN tr : ~IsDecryption(tr[x]) /\ tr[x].op # "hash_table_get"
              /\ ~Acted(tr)
              /\ ReplayAfter(i) = log[i].replay

\* C30: in identity mode the policy hash table's mutex is held only for the
\* single hash lookup: on every path out of the identity lookup (hit, miss,
\* lock failure) no lock is held when decryption, validation or dispatch
\* begin; a lock failure ends the packet with no decryption and no action,
\* and the receiver goes back to the top of its loop instead of exiting.
C30_LockOnlyForLookup ==
    /\ [](~ConfY(opts.config.DISABLE_SDP_MODE) => \A i \in DOMAIN log : LockDiscipline(i))
    /\ [][(~ConfY(opts.config.DISABLE_SDP_MODE) /\ log' # log /\ LockFailed(LastEv(log').trace))
          => pc' = "top"]_vars

\* identity mode: a packet whose lock failed, then a packet, of the same
\* client id, found under the lock and granted access
C30_Witness ==
    /\ ~ConfY(opts.config.DISABLE_SDP_MODE)
    /\ \E i, j \in DOMAIN log :
          /\ i < j
          /\ LockFailed(log[i].trace)
          /\ log[i].dgram = log[j].dgram
          /\ LookupHit(log[j].trace)
          /\ \E x \in DOMAIN log[j].trace : log[j].trace[x].op = "pthread_mutex_unlock"
          /\ Acted(log[j].trace)

\* clock readings before, at and after every expiry time of the runs
Clocks == {0, Now0 - 1, Now0, Now0 + 1, Now0 + MaxTick + 1}

\* C31: the expired flag of a stanza is monotone: processing a packet changes
\* nothing of a stanza but its expired flag, and that only from false to true;
\* and a stanza with access_expire_time > 0 whose flag is true rejects a packet
\* whatever the clock reads: the expiration check fails for every clock value,
\* and a packet that passes the stanza's address filter gets KEEP_SEARCHING
\* from the expiration check, with no decryption and no action.
C31_ExpiredMonotone ==
    \A i \in DOMAIN log : \A n \in DOMAIN log[i].stanzas :
        LET tr == log[i].trace
            acc == log[i].stanzas[n]
        IN  /\ StanzasAfter(i)[n] \in {acc, [acc EXCEPT !.expired = TRUE]}
            /\ (acc.expired /\ acc.access_expire_time > 0)
               => /\ \A c \in Clocks :
                        check_stanza_expiration(acc, c) = [ok |-> FALSE, acc |-> acc]
                  /\ ActionsOf(tr, n) = {}
                  /\ \A x \in DOMAIN tr : tr[x].stanza = n => ~IsDecryption(tr[x])
                  /\ ReachedStanza(tr, n)
                     => \E x \in DOMAIN tr :
                           tr[x] = VerdictEv(KEEP_SEARCHING, "check_stanza_expiration", n)

\* a packet that found the flag of an expired stanza clear and left it set,
\* then a packet that found it set and was turned away by that stanza
C31_Witness ==
    \E i, j \in DOMAIN log : \E n \in DOMAIN log[i].stanzas :
        /\ i < j
        /\ ~log[i].stanzas[n].expired
        /\ StanzasAfter(i)[n].expired
        /\ log[j].stanzas[n].expired
        /\ ReachedStanza(log[j].trace, n)
        /\ KeptSearching(log[j].trace, n)
        /\ StanzasAfter(j)[n].expired

\* the packets handed to the pipeline while a terminating signal was pending
HandedUnderSignal == {i \in DOMAIN log : log[i].signalled}

\* the packets during whose processing a terminating signal arrived
Interrupted == {i \in DOMAIN log : log[i].interrupted}

\* the process is inside incoming_spa
InPipeline == pc \in {"incoming_spa", "mutex_lock", "search", "wait"}

\* C32: when a terminating signal is pending the receiver loop exits at its
\* next loop-top check.  A step from the top of the loop with the signal
\* pending leads to the exit and hands over nothing; after the exit nothing
\* changes; a packet is handed over from the select only; a packet that was
\* handed over is processed to completion whether or not a signal is pending
\* or arrives meanwhile: every step inside the pipeline stays in it or returns
\* with the record incoming_spa yields for the packet; a packet with a signal
\* pending at its hand-over or arriving during its processing is the last
\* one; and a select that delivers no datagram (interrupted, failed or timed
\* out) hands over nothing and leads to the loop top or the exit.
C32_SignalStopsAtLoopTop ==
    /\ [](/\ Cardinality(HandedUnderSignal \cup Interrupted) <= 1
          /\ \A i \in HandedUnderSignal \cup Interrupted : i = Len(log)
          /\ InPipeline <=> inflight # <<>>
          /\ \A i \in DOMAIN log :
                /\ log[i].trace # <<>>
                /\ log[i].ctx = "NULL" \/ LastEv(log[i].trace).op = "SIGSEGV")
    /\ [][/\ (pc = "top" /\ got_signal)
                => (pc' = "exit" /\ log' = log /\ inflight' = <<>>)
          /\ pc = "exit" => UNCHANGED vars
          /\ (~InPipeline /\ InPipeline')
                => (pc = "select" /\ pc' = "incoming_spa" /\ log' = log
                    /\ inflight'[1].signalled = got_signal)
          /\ (InPipeline /\ <<pc, inflight>>' # <<pc, inflight>>)
                => \/ /\ InPipeline' /\ log' = log
                      /\ pc # pc' => /\ pc' \in {"mutex_lock", "search", "wait"}
                                      /\ pc \in {"incoming_spa", "mutex_lock", "search"}
                   \/ /\ pc' \in {"top", "dead"}
                      /\ Len(log') = Len(log) + 1
                      /\ LastEv(log').signalled = inflight[1].signalled
                      /\ LastEv(log').trace =
                            incoming_spa(opts, inflight[1].stanzas, inflight[1].replay,
                                         inflight[1].slot,
                                         [fault |-> inflight[1].fault,
                                          clock |-> inflight[1].clock,
                                          jump |-> LastEv(log').jump]).trace
                      /\ acc_stanzas' =
                            incoming_spa(opts, inflight[1].stanzas, inflight[1].replay,
                                         inflight[1].slot,
                                         [fault |-> inflight[1].fault,
                                          clock |-> inflight[1].clock,
                                          jump |-> LastEv(log').jump]).stanzas
                      /\ replay_cache' =
                            incoming_spa(opts, inflight[1].stanzas, inflight[1].replay,
                                         inflight[1].slot,
                                         [fault |-> inflight[1].fault,
                                          clock |-> inflight[1].clock,
                                          jump |-> LastEv(log').jump]).replay
          /\ log' # log => InPipeline
          /\ (pc = "select" /\ ~InPipeline' /\ pc' # pc) => pc' \in {"top", "exit"}
         ]_vars

\* the signal arrived while a packet was inside the pipeline; the packet was
\* processed to its end and acted on, and the loop then left at its top
C32_Witness ==
    /\ pc = "exit" /\ got_signal
    /\ \E i \in Interrupted :
          /\ Acted(log[i].trace)
          /\ LastEv(log[i].trace).op = "fko_destroy"

\* the calls of the replay store's insert made for a packet
Inserts(tr) == {x \in DOMAIN tr : tr[x].op = "add_replay"}

\* C33: during the processing of one packet the replay store's insert is
\* invoked at most once, also when several stanzas of the classic-mode list
\* decrypt the packet and the earlier ones return KEEP_SEARCHING.
C33_InsertOncePerPacket ==
    \A i \in DOMAIN log : Cardinality(Inserts(log[i].trace)) <= 1

\* the texts handed to the replay screen and to a decryption for a packet
HandedTexts(tr) ==
    {tr[x].data : x \in {y \in DOMAIN tr :
        tr[y].op \in {"replay_check", "fko_new_with_data", "fko_decrypt_spa_data"}}}

\* the text is one the prefix blacklist names
Blacklisted(data) ==
    \/ HasPrefix(data, B64_RIJNDAEL_SALT)
    \/ Len(data) > MIN_GNUPG_MSG_SIZE /\ HasPrefix(data, B64_GPG_PREFIX)

\* C34: no payload handed to the replay screen or to a decryption begins with
\* the base64 Rijndael salt prefix or the base64 GPG prefix, payloads obtained
\* by HTTP unwrapping included: the blacklist holds for the normalized payload
\* the later stages see.
C34_NoPrefixAfterNormalizing ==
    \A i \in DOMAIN log : \A data \in HandedTexts(log[i].trace) : ~Blacklisted(data)

\* the remainder of the message stanza n decrypted from packet i
RemainAt(i, n) ==
    LET m == PlainAt(i, n).spa_message
    IN  From(m, strchr(m, ",") + 1)

\* the scope policy of stanza n passes for the message of packet i
ScopePasses(i, n) ==
    LET acc == log[i].stanzas[n]
        sd == [spa_message_remain |-> RemainAt(i, n)]
    IN  IF PlainAt(i, n).message_type \in {"FKO_SERVICE_ACCESS_MSG",
                                           "FKO_CLIENT_TIMEOUT_SERVICE_ACCESS_MSG"}
        THEN check_service_access(acc, sd)
        ELSE check_port_proto(acc, sd)

\* C35: no dispatch action (command-cycle open, firewall actuator call) is
\* taken through a stanza for an access-type message unless the stanza's scope
\* policy has passed for the requested remainder: the service list for the
\* service-access types, the port/protocol lists otherwise.
C35_ScopeBeforeDispatch ==
    \A i \in DOMAIN log : \A n \in DOMAIN log[i].stanzas :
        \A x \in ActionsOf(log[i].trace, n) :
            (log[i].trace[x].op \in {"cmd_cycle_open", "process_spa_request"}
             /\ PlainAt(i, n).message_type # "FKO_COMMAND_MSG")
            => ScopePasses(i, n)

\* the client id the first characters of the payload encode
OwnId(data) ==
    BytesToU32(Take(fko_base64_decode(Take(data, B64_SDP_ID_STR_LEN)).bytes,
                    FKO_SDP_ID_SIZE))

\* the ids handed to the decryptions of a packet
DecryptIds(tr) ==
    {tr[x].sdp_id : x \in {y \in DOMAIN tr :
        tr[y].op \in {"fko_new_with_data", "fko_decrypt_spa_data"} /\ "sdp_id" \in DOMAIN tr[y]}}

\* the keys of the stanzas whose decryption was attempted for a packet
AttemptedKeys(tr) == {tr[x].key : x \in {y \in DOMAIN tr : tr[y].op = "fko_new_with_data"}}

\* C36: for every packet of a sequence the receiver hands over the slot with
\* the identity 0; in identity mode the identity of the policy lookup and of
\* every decryption is the nonzero one the packet's own payload encodes,
\* whatever identity and identity string an earlier packet left in the slot;
\* in classic mode it is zero and no identity lookup is made.
C36_OwnIdentity ==
    \A i \in DOMAIN log :
        LET tr == log[i].trace
            id == OwnId(log[i].slot.packet_data)
        IN  /\ log[i].slot.sdp_id = 0
            /\ IF ConfY(opts.config.DISABLE_SDP_MODE)
               THEN /\ log[i].pkt.sdp_id = 0
                    /\ DecryptIds(tr) \subseteq {0}
                    /\ \A x \in DOMAIN tr : tr[x].op # "sdp_id_check"
               ELSE Preprocessed(tr)
                    => /\ id # 0
                       /\ log[i].pkt.sdp_id = id
                       /\ log[i].pkt.sdp_id_str = DecStr(id)
                       /\ DecryptIds(tr) \subseteq {id}
                       /\ \A k \in AttemptedKeys(tr) :
                             k = log[i].stanzas[hash_table_get(log[i].stanzas,
                                                               DecStr(id))].key
                       /\ (log[i].fault # "mutex" /\ PassedReplayScreen(tr))
                             => (LookupHit(tr)
                                 <=> \E n \in DOMAIN log[i].stanzas :
                                        log[i].stanzas[n].sdp_id_key = DecStr(id))

\* in identity mode a packet of client 1 was looked up and left its identity
\* string in the slot, and a later packet of client 2 was looked up and
\* decrypted under the stanza of client 2, whose key is not that of client 1
C36_Witness ==
    /\ ~ConfY(opts.config.DISABLE_SDP_MODE)
    /\ \E i, j \in DOMAIN log :
          /\ i < j
          /\ OwnId(log[i].slot.packet_data) = 1 /\ LookupHit(log[i].trace)
          /\ log[j].slot.sdp_id_str = DecStr(1)
          /\ OwnId(log[j].slot.packet_data) = 2
          /\ LookupHit(log[j].trace) /\ Decrypted(log[j].trace)
          /\ DecryptIds(log[j].trace) = {2}
          /\ \E n \in DOMAIN log[j].stanzas :
                /\ log[j].stanzas[n].sdp_id_key = DecStr(1)
                /\ log[j].stanzas[n].key \notin AttemptedKeys(log[j].trace)

\* the source and destination lists of the stanza admit the datagram
AdmitsDatagram(acc, dgram) ==
    /\ compare_addr_list(acc.source_list, ntohl(dgram.src_ip))
    /\ acc.destination_list # {}
          => compare_addr_list(acc.destination_list, ntohl(dgram.dst_ip))

\* C37: the destination address the receiver attaches to a packet is the
\* address the datagram was sent to, so the destination_list filter of a
\* stanza is evaluated against the datagram's own destination: a stanza whose
\* source list holds the source and whose destination_list holds that
\* destination is not filtered out, and one whose lists do not is.
C37_DestinationOfDatagram ==
    \A i \in DOMAIN log :
        /\ log[i].slot.packet_dst_ip = log[i].dgram.dst_ip
        /\ \A x \in DOMAIN log[i].trace :
              LET e == log[i].trace[x]
              IN  (e.op = "src_dst_check" /\ e.stanza \in DOMAIN log[i].stanzas)
                  => (e.ok <=> AdmitsDatagram(log[i].stanzas[e.stanza], log[i].dgram))
====
